---- MODULE Spec2Model ----
(***************************************************************************)
(* A model of the news pipeline: the text normaliser                       *)
(* (services/text_extract.py), the LLM summarizers and sentiment analyzers *)
(* with their process-wide result caches (services/, backend_api/services/,*)
(* backend-api/services/) and the /analyze endpoint (backend_api/main.py). *)
(*                                                                         *)
(* Texts are sequences of one-character strings.  Numeric scores are       *)
(* integers counting tenths (0.3 is 3, 1.0 is 10, the Likert 5 is 50).     *)
(***************************************************************************)
EXTENDS Integers, Sequences, FiniteSets, TLC

VARIABLES
    tText,        \* _truncate_text: the text argument
    tMaxLength,   \* _truncate_text: the max_length argument
    tResult,      \* _truncate_text: the returned string
    tPc,          \* "ready" before the call, "done" after it
    unit,         \* the deployment / class whose calls this process makes
    sumCache,     \* the summarizer class's _cache dict: key -> summary
    senCache,     \* the analyzer class's _cache dict: key -> SentimentResult
    call,         \* the most recent summarize / analyze call and its outcome
    resp,         \* the most recent answer of the /analyze endpoint
    newsCache,    \* a NewsClient's _news_cache and _cache_timestamps dicts
    now           \* time.time(), in seconds since the NewsClient was built

truncVars == <<tText, tMaxLength, tResult, tPc>>
llmVars   == <<unit, sumCache, senCache, call>>
fetchVars == <<newsCache, now>>
vars      == <<tText, tMaxLength, tResult, tPc, unit, sumCache, senCache, call, resp,
               newsCache, now>>

-----------------------------------------------------------------------------
(* Bounds of the model *)

\* longest text handed to _truncate_text
MaxLen == 4

\* the characters texts are built from
Chars == {"a", "b", " "}

\* all texts of at most n characters
StringsUpTo(n) == UNION {[1..k -> Chars] : k \in 0..n}

-----------------------------------------------------------------------------
(* Python string helpers *)

Min(a, b) == IF a < b THEN a ELSE b
Max(a, b) == IF a > b THEN a ELSE b

\* s[:n] for n >= 0
Prefix(s, n) == SubSeq(s, 1, Min(n, Len(s)))

\* s.rfind(c): the highest 0-based index of c in s, or -1
RFind(s, c) ==
    IF \E i \in 1..Len(s) : s[i] = c
    THEN (CHOOSE i \in 1..Len(s) : s[i] = c /\ \A j \in (i+1)..Len(s) : s[j] # c) - 1
    ELSE -1

\* the marker appended on truncation
Ellipsis == <<".", ".", ".">>

-----------------------------------------------------------------------------
(* services/text_extract.py *)

\* a truncation that cuts after the last space instead of before it
TruncateTextKeepSpace(text, max_length) ==
    IF text = <<>> THEN <<>>
    ELSE IF Len(text) > max_length
         THEN LET truncated  == Prefix(text, max_length)
                  last_space == RFind(truncated, " ")
              IN  (IF last_space # -1 THEN Prefix(truncated, last_space + 1) ELSE truncated)
                      \o Ellipsis
         ELSE text

TruncateText(text, max_length) ==
    IF text = <<>> THEN <<>>
    ELSE IF Len(text) > max_length
         THEN LET truncated  == Prefix(text, max_length)
                  last_space == RFind(truncated, " ")
              IN  (IF last_space # -1 THEN Prefix(truncated, last_space) ELSE truncated)
                      \o Ellipsis
         ELSE text

\* NewsClient.__init__: both dicts empty; no NewsClient call is followed
NoNewsCache == [items |-> <<>>, stamps |-> <<>>]

FetchIdle ==
    /\ newsCache = NoNewsCache
    /\ now = 0

TruncIdle ==
    /\ tText = <<>>
    /\ tMaxLength = 0
    /\ tResult = <<>>
    /\ tPc = "idle"

TruncInit ==
    /\ tText \in StringsUpTo(MaxLen)
    /\ tMaxLength \in 0..(MaxLen + 1)
    /\ tResult = <<>>
    /\ tPc = "ready"

Truncate ==
    /\ tPc = "ready"
    /\ tResult' = TruncateText(tText, tMaxLength)
    /\ tPc' = "done"
    /\ UNCHANGED <<tText, tMaxLength>>

-----------------------------------------------------------------------------
(* Inputs of the LLM components *)

\* the article texts handed to summarize / analyze ("" is the empty text)
Texts == {<<>>, <<"a">>, <<"b">>}

\* hashlib.md5(s).hexdigest(), taken as collision free
Md5(s) == [md5 |-> s]

\* an assignment that drops the other entries of the dict
PutAlone(d, k, v) == [x \in {k} |-> v]

\* dict assignment d[k] = v
Put(d, k, v) == [x \in (DOMAIN d) \cup {k} |-> IF x = k THEN v ELSE d[x]]

\* the largest magnitude, in tenths, of a score the model returns
MaxScore == 70

\* the numeric scores, in tenths, the model returns
ScoreVals == {-MaxScore, -3, 0, 2, 3, 25, 35, MaxScore}

\* A JSON value met under the key "score":
\*   t = "absent" (no such key), "null", "string", "bool" (true, v = 10),
\*   "int" / "float" (v in tenths), "bigint" (an integer literal beyond the
\*   range of a double, v only carries its sign).
ScoreField ==
    {[t |-> "absent", v |-> 0], [t |-> "null", v |-> 0], [t |-> "string", v |-> 0],
     [t |-> "bool", v |-> 10], [t |-> "bigint", v |-> 1], [t |-> "bigint", v |-> -1]}
    \cup {[t |-> "float", v |-> n] : n \in ScoreVals}
    \cup {[t |-> "int", v |-> n] : n \in {-20, 0, 20, 40}}

\* A JSON value met under the key "label": a string, or no key, null, a number.
LabelField == {"<absent>", "<null>", "<number>", "positive", "neutral", "negative"}

\* The text of a model answer to the sentiment prompt.  form: "notjson" (no
\* JSON document at all), "array" (a JSON document that is no object),
\* "object", "braced" (an object amid other text that has braces of its own);
\* prose: the object is surrounded by other text.
SentimentRaw(form, prose, label, score) ==
    [form |-> form, prose |-> prose, label |-> label, score |-> score]

NoRaw == SentimentRaw("notjson", FALSE, "<absent>", [t |-> "absent", v |-> 0])

\* What one model invocation does: raises, answers without parts (blocked
\* prompt, blocked candidate, plain empty), answers with no message content
\* (OpenAI), or answers with text.
SentimentOutputs ==
    {[kind |-> k, raw |-> NoRaw] :
        k \in {"raise", "blocked_prompt", "blocked_candidate", "no_parts", "no_content"}}
    \cup {[kind |-> "text", raw |-> SentimentRaw("notjson", FALSE, "<absent>", [t |-> "absent", v |-> 0])],
          [kind |-> "text", raw |-> SentimentRaw("array", FALSE, "<absent>", [t |-> "absent", v |-> 0])]}
    \cup {[kind |-> "text", raw |-> SentimentRaw("object", FALSE, "positive", s)] : s \in ScoreField}
    \cup {[kind |-> "text", raw |-> SentimentRaw("object", FALSE, l, [t |-> "float", v |-> 2])] :
            l \in LabelField}
    \cup {[kind |-> "text", raw |-> SentimentRaw("object", FALSE, "<absent>", s)] :
            s \in {[t |-> "int", v |-> 40], [t |-> "float", v |-> MaxScore], [t |-> "string", v |-> 0]}}
    \cup {[kind |-> "text", raw |-> SentimentRaw("object", TRUE, "<absent>", s)] :
            s \in {[t |-> "int", v |-> 20], [t |-> "absent", v |-> 0]}}
    \cup {[kind |-> "text",
           raw |-> SentimentRaw("braced", TRUE, "<absent>", [t |-> "int", v |-> 20])]}

\* the (positive_threshold, negative_threshold) pairs analyzers are built with
Thresholds == {[pos |-> 3, neg |-> -3], [pos |-> 1, neg |-> -1]}

SentimentResult(label, score) == [label |-> label, score |-> score]

-----------------------------------------------------------------------------
(* Python exceptions *)

\* the direct base class of an exception class
ExcParent(c) ==
    CASE c = "JSONDecodeError" -> "ValueError"
      [] c \in {"Timeout", "ConnectionError", "HTTPError", "TooManyRedirects",
                "requests.JSONDecodeError"} -> "RequestException"
      [] c = "BaseException"   -> "BaseException"
      [] c = "Exception"       -> "BaseException"
      [] OTHER                 -> "Exception"

\* isinstance(e, d) for an exception e of class c: what `except d` catches
IsInstance(c, d) ==
    \/ c = d
    \/ ExcParent(c) = d
    \/ ExcParent(ExcParent(c)) = d
    \/ d = "BaseException"

\* the result of a block of code: the exception it raised ("none": it
\* returned) and the value it returned
Returned(v)  == [exc |-> "none", value |-> v]
Raised(c, v) == [exc |-> c, value |-> v]

NoSentiment == SentimentResult("<none>", 0)

-----------------------------------------------------------------------------
(* JSON and numbers *)

\* json.loads(raw_output): the exception it raises, or "none"
JsonLoads(raw) ==
    IF raw.form = "notjson" \/ raw.prose THEN "JSONDecodeError" ELSE "none"

\* raw_output[raw_output.find('{'):raw_output.rfind('}')+1]: the span from the
\* first "{" to the last "}", empty when there is none; with braces in the
\* surrounding text the span is more than the object, and no JSON document
BraceSpan(raw) ==
    IF raw.form = "object"
    THEN [raw EXCEPT !.prose = FALSE]
    ELSE [raw EXCEPT !.form = "notjson", !.prose = FALSE]

\* isinstance(score, (int, float)): bool is a subclass of int
IsNumber(f) == f.t \in {"bool", "int", "float", "bigint"}

\* v is None, for data.get(key)
IsNone(f) == f.t \in {"absent", "null"}

\* float(score) raises OverflowError for an int beyond the double range
FloatRaises(f) == f.t = "bigint"

\* max(lo, min(hi, score)) in tenths; a bigint lies beyond every bound
Clamp(f, lo, hi) ==
    IF f.t = "bigint" THEN (IF f.v > 0 THEN hi ELSE lo)
    ELSE Max(lo, Min(hi, f.v))

\* round(x) for x >= 0 in tenths: to the nearest integer, halves to even
Round(t) ==
    LET q == t \div 10
        r == t % 10
    IN  IF r < 5 THEN q
        ELSE IF r > 5 THEN q + 1
        ELSE IF q % 2 = 0 THEN q ELSE q + 1

-----------------------------------------------------------------------------
(* services/sentiment.py: the analyzer on the -1.0 .. 1.0 scale *)

\* the body of _parse_gemini_output's try block
ParseThresholdBody(raw) ==
    IF JsonLoads(raw) # "none" THEN Raised(JsonLoads(raw), NoSentiment)
    ELSE IF raw.form # "object" THEN Raised("AttributeError", NoSentiment)
    ELSE IF raw.label \in {"<absent>", "<null>"} \/ IsNone(raw.score)
         THEN Raised("ValueError", NoSentiment)
    ELSE IF raw.label = "<number>" \/ ~IsNumber(raw.score)
         THEN Raised("ValueError", NoSentiment)
    ELSE IF FloatRaises(raw.score) THEN Raised("OverflowError", NoSentiment)
    ELSE Returned(SentimentResult(raw.label, Clamp(raw.score, -10, 10)))

\* _parse_gemini_output: every exception of the body becomes a ValueError
ParseThreshold(raw) ==
    LET b == ParseThresholdBody(raw)
    IN  IF b.exc = "none" THEN b
        ELSE IF IsInstance(b.exc, "JSONDecodeError") THEN Raised("ValueError", NoSentiment)
        ELSE IF IsInstance(b.exc, "Exception") THEN Raised("ValueError", NoSentiment)
        ELSE b

\* a labelling that wants the score strictly beyond the thresholds
ThresholdLabelStrict(inst, score) ==
    IF score > inst.pos THEN "positive"
    ELSE IF score < inst.neg THEN "negative"
    ELSE "neutral"

\* the label analyze sets from the instance's thresholds
ThresholdLabel(inst, score) ==
    IF score >= inst.pos THEN "positive"
    ELSE IF score <= inst.neg THEN "negative"
    ELSE "neutral"

\* generate_content and the checks on the response, for a Gemini model: the
\* exception raised, or "none" with the text of the parts
GeminiResponse(out, blockedExc) ==
    IF out.kind = "raise" THEN "Exception"
    ELSE IF out.kind \in {"blocked_prompt", "blocked_candidate", "no_parts"} THEN blockedExc
    ELSE "none"

\* The outcome of a call: the cache after it, the path taken ("empty", "hit",
\* "ok", "fallback", "raise"), the exception that left the call ("none": it
\* returned), the value returned, and the number of model invocations.
Outcome(cache, path, exc, value, calls) ==
    [cache |-> cache, path |-> path, exc |-> exc, value |-> value, calls |-> calls]

NeutralThreshold == SentimentResult("neutral", 0)

\* the body of analyze's try block
AnalyzeThresholdBody(inst, out) ==
    LET g == GeminiResponse(out, "SentimentException")
    IN  IF g # "none" THEN Raised(g, NoSentiment)
        ELSE LET p == ParseThreshold(out.raw)
             IN  IF p.exc # "none" THEN p
                 ELSE Returned(SentimentResult(ThresholdLabel(inst, p.value.score),
                                               p.value.score))

\* GeminiSentimentAnalyzer.analyze of services/sentiment.py
AnalyzeThreshold(cache, inst, text, out) ==
    LET cache_key == Md5(text)
    IN  IF text = <<>> THEN Outcome(cache, "empty", "none", NeutralThreshold, 0)
        ELSE IF cache_key \in DOMAIN cache
             THEN Outcome(cache, "hit", "none", cache[cache_key], 0)
        ELSE LET b == AnalyzeThresholdBody(inst, out)
             IN  IF b.exc = "none"
                 THEN Outcome(Put(cache, cache_key, b.value), "ok", "none", b.value, 1)
                 ELSE IF IsInstance(b.exc, "ValueError")
                 THEN Outcome(cache, "fallback", "none", NeutralThreshold, 1)
                 ELSE IF IsInstance(b.exc, "Exception")
                 THEN Outcome(cache, "fallback", "none", NeutralThreshold, 1)
                 ELSE Outcome(cache, "raise", b.exc, NoSentiment, 1)

-----------------------------------------------------------------------------
(* backend_api/services/sentiment.py, backend-api/services/openai_sentiment.py:
   the analyzers on the Likert scale 1 .. 5 *)

\* LIKERT_SCALE_LABELS.get(score, unknown); the labels' English halves
LikertLabel(n) ==
    CASE n = 1 -> "Extremely Negative"
      [] n = 2 -> "Negative"
      [] n = 3 -> "Neutral"
      [] n = 4 -> "Positive"
      [] n = 5 -> "Extremely Positive"
      [] OTHER -> "Unknown"

NeutralLikert == SentimentResult(LikertLabel(3), 30)

\* stop_after_attempt(3) of the tenacity decorators
StopAfterAttempt == 3

\* a body that rounds the score without clamping it first
ParseLikertBodyUnclamped(raw) ==
    IF JsonLoads(raw) # "none" THEN Raised(JsonLoads(raw), NoSentiment)
    ELSE IF raw.form # "object" THEN Raised("AttributeError", NoSentiment)
    ELSE IF IsNone(raw.score) THEN Raised("ValueError", NoSentiment)
    ELSE IF ~IsNumber(raw.score) THEN Raised("ValueError", NoSentiment)
    ELSE LET score == IF raw.score.t = "bigint" THEN 50 * raw.score.v
                      ELSE IF raw.score.v >= 0 THEN Round(raw.score.v)
                      ELSE -Round(-raw.score.v)
         IN  Returned(SentimentResult(LikertLabel(score), 10 * score))

\* the body of the try block of _parse_gemini_output / _parse_openai_output,
\* from json.loads on
ParseLikertBody(raw) ==
    IF JsonLoads(raw) # "none" THEN Raised(JsonLoads(raw), NoSentiment)
    ELSE IF raw.form # "object" THEN Raised("AttributeError", NoSentiment)
    ELSE IF IsNone(raw.score) THEN Raised("ValueError", NoSentiment)
    ELSE IF ~IsNumber(raw.score) THEN Raised("ValueError", NoSentiment)
    ELSE LET score == Round(Clamp(raw.score, 10, 50))
         IN  Returned(SentimentResult(LikertLabel(score), 10 * score))

\* _parse_gemini_output of backend_api/services/sentiment.py
ParseLikertGemini(raw) ==
    LET b == ParseLikertBody(raw)
    IN  IF b.exc = "none" THEN b
        ELSE IF IsInstance(b.exc, "JSONDecodeError") THEN Raised("ValueError", NoSentiment)
        ELSE IF IsInstance(b.exc, "Exception") THEN Raised("ValueError", NoSentiment)
        ELSE b

\* _parse_openai_output: the brace span is parsed
ParseLikertOpenAI(raw) ==
    LET b == ParseLikertBody(BraceSpan(raw))
    IN  IF b.exc = "none" THEN b
        ELSE IF IsInstance(b.exc, "JSONDecodeError") \/ IsInstance(b.exc, "ValueError")
             THEN Raised("ValueError", NoSentiment)
        ELSE IF IsInstance(b.exc, "Exception") THEN Raised("ValueError", NoSentiment)
        ELSE b

\* the body of analyze's try block, Gemini
AnalyzeLikertGeminiBody(out) ==
    LET g == GeminiResponse(out, "SentimentException")
    IN  IF g # "none" THEN Raised(g, NoSentiment) ELSE ParseLikertGemini(out.raw)

\* the body of analyze's try block, OpenAI: create() raises, or
\* message.content is None and .strip() raises, or the content is parsed
AnalyzeOpenAIBody(out) ==
    IF out.kind = "raise" THEN Raised("Exception", NoSentiment)
    ELSE IF out.kind = "no_content" THEN Raised("AttributeError", NoSentiment)
    ELSE ParseLikertOpenAI(out.raw)

\* except clauses that handle ValueError only
AnalyzeLikertHandlersValueOnly(cache, cache_key, b) ==
    IF b.exc = "none"
    THEN Outcome(Put(cache, cache_key, b.value), "ok", "none", b.value, 1)
    ELSE IF IsInstance(b.exc, "ValueError")
    THEN Outcome(cache, "fallback", "none", NeutralLikert, 1)
    ELSE Outcome(cache, "raise", b.exc, NoSentiment, 1)

\* the except clauses of both Likert analyze methods, around body result b
AnalyzeLikertHandlers(cache, cache_key, b) ==
    IF b.exc = "none"
    THEN Outcome(Put(cache, cache_key, b.value), "ok", "none", b.value, 1)
    ELSE IF IsInstance(b.exc, "ValueError")
    THEN Outcome(cache, "fallback", "none", NeutralLikert, 1)
    ELSE IF IsInstance(b.exc, "Exception")
    THEN Outcome(cache, "fallback", "none", NeutralLikert, 1)
    ELSE Outcome(cache, "raise", b.exc, NoSentiment, 1)

\* one run of the function under GeminiSentimentAnalyzer.analyze's decorator
AnalyzeLikertGeminiOnce(cache, text, out) ==
    LET cache_key == Md5(text)
    IN  IF text = <<>> THEN Outcome(cache, "empty", "none", NeutralLikert, 0)
        ELSE IF cache_key \in DOMAIN cache
             THEN Outcome(cache, "hit", "none", cache[cache_key], 0)
        ELSE AnalyzeLikertHandlers(cache, cache_key, AnalyzeLikertGeminiBody(out))

\* tenacity's @retry: the function is run again while it raises an Exception,
\* and after the last attempt RetryError is raised (reraise is not set)
RECURSIVE AnalyzeLikertGeminiAttempt(_, _, _, _, _)
AnalyzeLikertGeminiAttempt(cache, text, outs, i, calls) ==
    LET o == AnalyzeLikertGeminiOnce(cache, text, outs[i])
        n == calls + o.calls
    IN  IF o.exc = "none" THEN [o EXCEPT !.calls = n]
        ELSE IF ~IsInstance(o.exc, "Exception") THEN [o EXCEPT !.calls = n]
        ELSE IF i < StopAfterAttempt
             THEN AnalyzeLikertGeminiAttempt(o.cache, text, outs, i + 1, n)
        ELSE Outcome(o.cache, "raise", "RetryError", NoSentiment, n)

\* GeminiSentimentAnalyzer.analyze of backend_api/services/sentiment.py
AnalyzeLikertGemini(cache, text, outs) ==
    AnalyzeLikertGeminiAttempt(cache, text, outs, 1, 0)

\* OpenAISentimentAnalyzer.analyze
AnalyzeOpenAI(cache, text, out) ==
    LET cache_key == Md5(text)
    IN  IF text = <<>> THEN Outcome(cache, "empty", "none", NeutralLikert, 0)
        ELSE IF cache_key \in DOMAIN cache
             THEN Outcome(cache, "hit", "none", cache[cache_key], 0)
        ELSE AnalyzeLikertHandlers(cache, cache_key, AnalyzeOpenAIBody(out))

-----------------------------------------------------------------------------
(* More Python string helpers, for the summaries *)

\* str.isspace() of one character
IsSpace(c) == c \in {" ", "\n", "\t"}

\* s.strip()
Strip(s) ==
    IF \A i \in 1..Len(s) : IsSpace(s[i]) THEN <<>>
    ELSE LET first == CHOOSE i \in 1..Len(s) :
                          ~IsSpace(s[i]) /\ \A j \in 1..(i-1) : IsSpace(s[j])
             last  == CHOOSE i \in 1..Len(s) :
                          ~IsSpace(s[i]) /\ \A j \in (i+1)..Len(s) : IsSpace(s[j])
         IN  SubSeq(s, first, last)

\* s.split('\n')
RECURSIVE SplitLines(_)
SplitLines(s) ==
    IF \A i \in 1..Len(s) : s[i] # "\n" THEN <<s>>
    ELSE LET i == CHOOSE k \in 1..Len(s) : s[k] = "\n" /\ \A j \in 1..(k-1) : s[j] # "\n"
         IN  <<SubSeq(s, 1, i - 1)>> \o SplitLines(SubSeq(s, i + 1, Len(s)))

\* s.startswith(p)
StartsWith(s, p) == Len(s) >= Len(p) /\ SubSeq(s, 1, Len(p)) = p

\* sep.join(parts)
RECURSIVE Join(_, _)
Join(sep, parts) ==
    IF parts = <<>> THEN <<>>
    ELSE IF Len(parts) = 1 THEN parts[1]
    ELSE parts[1] \o sep \o Join(sep, Tail(parts))

\* None, where a string is expected
NoneStr == <<"<None>">>

\* `not s` for an Optional[str]
Falsy(s) == s = NoneStr \/ s = <<>>

\* '- ', the bullet marker
BulletMarker == <<"-", " ">>

\* the conclusion marker: the two Hangul syllables gyeol, ron and a colon.
\* Neither syllable has a case, so line.lower().startswith(marker) is
\* line.startswith(marker).
ConclusionMarker == <<"gyeol", "ron", ":">>

-----------------------------------------------------------------------------
(* services/summarizer.py *)

\* a loop that puts the bullet marker in front of every bullet, marked or not
RECURSIVE ParseLinesMarkingAll(_, _, _)
ParseLinesMarkingAll(lines, bullet_points, conclusion) ==
    IF lines = <<>> THEN [bullet_points |-> bullet_points, conclusion |-> conclusion]
    ELSE LET line == Strip(Head(lines))
             rest == Tail(lines)
         IN  IF StartsWith(line, BulletMarker)
             THEN ParseLinesMarkingAll(rest, Append(bullet_points, BulletMarker \o line),
                                       conclusion)
             ELSE IF StartsWith(line, ConclusionMarker)
             THEN ParseLinesMarkingAll(rest, bullet_points, line)
             ELSE IF bullet_points = <<>> /\ conclusion = <<>> /\ line # <<>>
             THEN ParseLinesMarkingAll(rest, Append(bullet_points, BulletMarker \o line),
                                       conclusion)
             ELSE IF bullet_points # <<>> /\ conclusion = <<>> /\ line # <<>>
             THEN ParseLinesMarkingAll(rest, bullet_points,
                                       ConclusionMarker \o <<" ">> \o line)
             ELSE ParseLinesMarkingAll(rest, bullet_points, conclusion)

\* a loop that makes a bullet of an unmarked line whenever no bullet was
\* collected, also after a conclusion
RECURSIVE ParseLinesBeforeAnyBullet(_, _, _)
ParseLinesBeforeAnyBullet(lines, bullet_points, conclusion) ==
    IF lines = <<>> THEN [bullet_points |-> bullet_points, conclusion |-> conclusion]
    ELSE LET line == Strip(Head(lines))
             rest == Tail(lines)
         IN  IF StartsWith(line, BulletMarker)
             THEN ParseLinesBeforeAnyBullet(rest, Append(bullet_points, line), conclusion)
             ELSE IF StartsWith(line, ConclusionMarker)
             THEN ParseLinesBeforeAnyBullet(rest, bullet_points, line)
             ELSE IF bullet_points = <<>> /\ line # <<>>
             THEN ParseLinesBeforeAnyBullet(rest, Append(bullet_points, BulletMarker \o line),
                                            conclusion)
             ELSE IF bullet_points # <<>> /\ conclusion = <<>> /\ line # <<>>
             THEN ParseLinesBeforeAnyBullet(rest, bullet_points,
                                            ConclusionMarker \o <<" ">> \o line)
             ELSE ParseLinesBeforeAnyBullet(rest, bullet_points, conclusion)

\* the loop of _parse_summary_output over the lines
RECURSIVE ParseLines(_, _, _)
ParseLines(lines, bullet_points, conclusion) ==
    IF lines = <<>> THEN [bullet_points |-> bullet_points, conclusion |-> conclusion]
    ELSE LET line == Strip(Head(lines))
             rest == Tail(lines)
         IN  IF StartsWith(line, BulletMarker)
             THEN ParseLines(rest, Append(bullet_points, line), conclusion)
             ELSE IF StartsWith(line, ConclusionMarker)
             THEN ParseLines(rest, bullet_points, line)
             ELSE IF bullet_points = <<>> /\ conclusion = <<>> /\ line # <<>>
             THEN ParseLines(rest, Append(bullet_points, BulletMarker \o line), conclusion)
             ELSE IF bullet_points # <<>> /\ conclusion = <<>> /\ line # <<>>
             THEN ParseLines(rest, bullet_points, ConclusionMarker \o <<" ">> \o line)
             ELSE ParseLines(rest, bullet_points, conclusion)

\* a parser that leaves the lines before the first bullet out instead of
\* making the first of them a bullet
ParseSummaryOutputNoCoercion(raw_output) ==
    LET lines    == SplitLines(Strip(raw_output))
        marked   == SelectSeq(lines, LAMBDA l : StartsWith(Strip(l), BulletMarker)
                                                \/ StartsWith(Strip(l), ConclusionMarker))
        p        == ParseLines(marked, <<>>, <<>>)
        bullets  == Join(<<"\n">>, p.bullet_points)
        sep      == IF bullets # <<>> /\ p.conclusion # <<>> THEN <<"\n", "\n">> ELSE <<>>
        formatted == bullets \o sep \o p.conclusion
    IN  IF p.bullet_points = <<>> /\ p.conclusion = <<>> THEN NoneStr
        ELSE IF formatted # <<>> THEN formatted ELSE raw_output

\* _parse_summary_output
ParseSummaryOutput(raw_output) ==
    LET p        == ParseLines(SplitLines(Strip(raw_output)), <<>>, <<>>)
        bullets  == Join(<<"\n">>, p.bullet_points)
        sep      == IF bullets # <<>> /\ p.conclusion # <<>> THEN <<"\n", "\n">> ELSE <<>>
        formatted == bullets \o sep \o p.conclusion
    IN  IF p.bullet_points = <<>> /\ p.conclusion = <<>> THEN NoneStr
        ELSE IF formatted # <<>> THEN formatted ELSE raw_output

\* the cache key of every summarizer: md5 of f"{text}-{length_option}"
SummaryCacheKey(text, length_option) == Md5(text \o <<"-">> \o length_option)

\* the body of summarize's try block: [exc, value, path]
SummarizeServicesBody(out) ==
    IF out.kind = "raise_value" THEN [exc |-> "ValueError", value |-> NoneStr, path |-> "raise"]
    ELSE LET g == GeminiResponse(out, "summarizer.SummarizerException")
         IN  IF g # "none" THEN [exc |-> g, value |-> NoneStr, path |-> "raise"]
             ELSE LET parsed_summary == ParseSummaryOutput(out.raw)
                  IN  IF Falsy(parsed_summary)
                      THEN [exc |-> "none", value |-> out.raw, path |-> "fallback"]
                      ELSE [exc |-> "none", value |-> parsed_summary, path |-> "ok"]

\* GeminiSummarizer.summarize of services/summarizer.py
SummarizeServices(cache, text, length_option, out) ==
    LET cache_key == SummaryCacheKey(text, length_option)
    IN  IF text = <<>> THEN Outcome(cache, "empty", "none", NoneStr, 0)
        ELSE IF cache_key \in DOMAIN cache
             THEN Outcome(cache, "hit", "none", cache[cache_key], 0)
        ELSE LET b == SummarizeServicesBody(out)
             IN  IF b.exc = "none"
                 THEN Outcome(Put(cache, cache_key, b.value), b.path, "none", b.value, 1)
                 ELSE IF IsInstance(b.exc, "ValueError")
                 THEN Outcome(cache, "raise", "summarizer.SummarizerException", NoneStr, 1)
                 ELSE IF IsInstance(b.exc, "Exception")
                 THEN Outcome(cache, "raise", "summarizer.SummarizerException", NoneStr, 1)
                 ELSE Outcome(cache, "raise", b.exc, NoneStr, 1)

-----------------------------------------------------------------------------
(* backend_api/services/summarizer.py, backend_api/services/openai_summarizer.py *)

\* what summarize returns for an empty text (the Korean sentence of
\* backend_api/services/summarizer.py, the English one of openai_summarizer.py)
NoContentGemini == <<"(nothing to summarize, in Korean)">>
NoContentOpenAI == <<"There is no content to summarize.">>

\* one run of the function under GeminiSummarizer.summarize's decorator
SummarizeGeminiOnce(cache, text, length_option, out) ==
    LET cache_key == SummaryCacheKey(text, length_option)
    IN  IF text = <<>> THEN Outcome(cache, "empty", "none", NoContentGemini, 0)
        ELSE IF cache_key \in DOMAIN cache
             THEN Outcome(cache, "hit", "none", cache[cache_key], 0)
        ELSE LET g == IF out.kind = "raise_value" THEN "ValueError"
                      ELSE GeminiResponse(out, "summarizer.SummarizerException")
             IN  IF g = "none"
                 THEN Outcome(Put(cache, cache_key, Strip(out.raw)), "ok", "none",
                              Strip(out.raw), 1)
                 ELSE IF IsInstance(g, "Exception")
                 THEN Outcome(cache, "raise", "summarizer.SummarizerException", NoneStr, 1)
                 ELSE Outcome(cache, "raise", g, NoneStr, 1)

\* tenacity's @retry around it: run again while an Exception is raised, and
\* RetryError after the last attempt (reraise is not set)
RECURSIVE SummarizeGeminiAttempt(_, _, _, _, _, _)
SummarizeGeminiAttempt(cache, text, length_option, outs, i, calls) ==
    LET o == SummarizeGeminiOnce(cache, text, length_option, outs[i])
        n == calls + o.calls
    IN  IF o.exc = "none" THEN [o EXCEPT !.calls = n]
        ELSE IF ~IsInstance(o.exc, "Exception") THEN [o EXCEPT !.calls = n]
        ELSE IF i < StopAfterAttempt
             THEN SummarizeGeminiAttempt(o.cache, text, length_option, outs, i + 1, n)
        ELSE Outcome(o.cache, "raise", "RetryError", NoneStr, n)

\* GeminiSummarizer.summarize of backend_api/services/summarizer.py
SummarizeGemini(cache, text, length_option, outs) ==
    SummarizeGeminiAttempt(cache, text, length_option, outs, 1, 0)

\* OpenAISummarizer.summarize
SummarizeOpenAI(cache, text, length_option, out) ==
    LET cache_key == SummaryCacheKey(text, length_option)
    IN  IF text = <<>> THEN Outcome(cache, "empty", "none", NoContentOpenAI, 0)
        ELSE IF cache_key \in DOMAIN cache
             THEN Outcome(cache, "hit", "none", cache[cache_key], 0)
        ELSE LET g == IF out.kind = "raise" THEN "Exception"
                      ELSE IF out.kind = "no_content" THEN "AttributeError"
                      ELSE "none"
             IN  IF g = "none"
                 THEN Outcome(Put(cache, cache_key, Strip(out.raw)), "ok", "none",
                              Strip(out.raw), 1)
                 ELSE IF IsInstance(g, "Exception")
                 THEN Outcome(cache, "raise", "openai_summarizer.SummarizerException",
                              NoneStr, 1)
                 ELSE Outcome(cache, "raise", g, NoneStr, 1)

-----------------------------------------------------------------------------
(* The components as a state machine.  A process drives one class (unit); the
   class's _cache dict lives as long as the process.  The caches of different
   classes are disjoint dicts, so each class is followed on its own. *)

Units == {"services.summarizer", "services.sentiment",
          "gemini.summarizer", "gemini.sentiment",
          "openai.summarizer", "openai.sentiment"}

\* the length options summarize is called with
Lengths == {<<"short">>, <<"medium">>}

\* model answers to the summary prompt: blank, one plain line, two plain
\* lines, a bullet and a conclusion
RawBlank    == <<" ">>
RawPlain    == <<"x">>
RawTwoPlain == <<"x", "\n", "y">>
RawMarked   == <<"-", " ", "x", "\n", "gyeol", "ron", ":", " ", "y">>
RawPadded   == <<" ", "-", " ", "x", " ">>

SummaryOut(kind, raw) == [kind |-> kind, raw |-> raw]

\* what one invocation of the Gemini model does for services/summarizer.py
ServicesSummaryOutputs ==
    {SummaryOut(k, <<>>) :
        k \in {"raise", "raise_value", "blocked_prompt", "blocked_candidate", "no_parts"}}
    \cup {SummaryOut("text", r) : r \in {RawBlank, RawPlain, RawTwoPlain, RawMarked}}

\* ... for backend_api/services/summarizer.py, per attempt
GeminiSummaryOutputs ==
    {SummaryOut("raise", <<>>), SummaryOut("blocked_prompt", <<>>),
     SummaryOut("blocked_candidate", <<>>), SummaryOut("text", RawPadded)}

\* ... for the OpenAI-compatible model
OpenAISummaryOutputs ==
    {SummaryOut("raise", <<>>), SummaryOut("no_content", <<>>)}
    \cup {SummaryOut("text", r) : r \in {RawBlank, RawPlain, RawPadded}}

GeminiSentimentOutputs == {o \in SentimentOutputs : o.kind # "no_content"}

OpenAISentimentOutputs == {o \in SentimentOutputs : o.kind \in {"raise", "no_content", "text"}}

\* the behaviours of the attempts of one decorated call: any first one, and
\* one of `later` for the attempts after it
Attempts(first, later) ==
    {[i \in 1..StopAfterAttempt |-> IF i = 1 THEN a ELSE b] : a \in first, b \in later}

\* the record kept of a call: the operation, its arguments, the model
\* behaviours it consumed, and its outcome
CallRec(op, text, param, outs, o) ==
    [op |-> op, text |-> text, param |-> param, outs |-> SubSeq(outs, 1, o.calls),
     path |-> o.path, exc |-> o.exc, value |-> o.value, calls |-> o.calls]

NoCall ==
    [op |-> "none", text |-> <<>>, param |-> <<>>, outs |-> <<>>,
     path |-> "none", exc |-> "none", value |-> <<>>, calls |-> 0]

NoResp == [status |-> 0, detail |-> "none", cause |-> "none", summary |-> <<>>,
           sentiment |-> NoSentiment]

LLMIdle ==
    /\ unit = "none"
    /\ sumCache = <<>>
    /\ senCache = <<>>
    /\ call = NoCall

LLMInit ==
    /\ unit \in Units
    /\ sumCache = <<>>
    /\ senCache = <<>>
    /\ call = NoCall

DoSummarizeServices ==
    /\ unit = "services.summarizer"
    /\ \E text \in Texts, length_option \in Lengths, out \in ServicesSummaryOutputs :
          LET o == SummarizeServices(sumCache, text, length_option, out)
          IN  /\ sumCache' = o.cache
              /\ call' = CallRec("summarize", text, length_option, <<out>>, o)
    /\ UNCHANGED <<unit, senCache>>

DoSummarizeGemini ==
    /\ unit = "gemini.summarizer"
    /\ \E text \in Texts, length_option \in Lengths,
          outs \in [1..StopAfterAttempt -> GeminiSummaryOutputs] :
          LET o == SummarizeGemini(sumCache, text, length_option, outs)
          IN  /\ sumCache' = o.cache
              /\ call' = CallRec("summarize", text, length_option, outs, o)
    /\ UNCHANGED <<unit, senCache>>

DoSummarizeOpenAI ==
    /\ unit = "openai.summarizer"
    /\ \E text \in Texts, length_option \in Lengths, out \in OpenAISummaryOutputs :
          LET o == SummarizeOpenAI(sumCache, text, length_option, out)
          IN  /\ sumCache' = o.cache
              /\ call' = CallRec("summarize", text, length_option, <<out>>, o)
    /\ UNCHANGED <<unit, senCache>>

DoAnalyzeThreshold ==
    /\ unit = "services.sentiment"
    /\ \E inst \in Thresholds, text \in Texts, out \in GeminiSentimentOutputs :
          LET o == AnalyzeThreshold(senCache, inst, text, out)
          IN  /\ senCache' = o.cache
              /\ call' = CallRec("analyze", text, inst, <<out>>, o)
    /\ UNCHANGED <<unit, sumCache>>

DoAnalyzeLikertGemini ==
    /\ unit = "gemini.sentiment"
    /\ \E text \in Texts,
          outs \in Attempts(GeminiSentimentOutputs, {[kind |-> "raise", raw |-> NoRaw]}) :
          LET o == AnalyzeLikertGemini(senCache, text, outs)
          IN  /\ senCache' = o.cache
              /\ call' = CallRec("analyze", text, <<>>, outs, o)
    /\ UNCHANGED <<unit, sumCache>>

DoAnalyzeOpenAI ==
    /\ unit = "openai.sentiment"
    /\ \E text \in Texts, out \in OpenAISentimentOutputs :
          LET o == AnalyzeOpenAI(senCache, text, out)
          IN  /\ senCache' = o.cache
              /\ call' = CallRec("analyze", text, <<>>, <<out>>, o)
    /\ UNCHANGED <<unit, sumCache>>

Init == TruncIdle /\ LLMInit /\ resp = NoResp /\ FetchIdle

Next ==
    \/ DoSummarizeServices /\ UNCHANGED <<tText, tMaxLength, tResult, tPc, resp, newsCache, now>>
    \/ DoSummarizeGemini /\ UNCHANGED <<tText, tMaxLength, tResult, tPc, resp, newsCache, now>>
    \/ DoSummarizeOpenAI /\ UNCHANGED <<tText, tMaxLength, tResult, tPc, resp, newsCache, now>>
    \/ DoAnalyzeThreshold /\ UNCHANGED <<tText, tMaxLength, tResult, tPc, resp, newsCache, now>>
    \/ DoAnalyzeLikertGemini /\ UNCHANGED <<tText, tMaxLength, tResult, tPc, resp, newsCache, now>>
    \/ DoAnalyzeOpenAI /\ UNCHANGED <<tText, tMaxLength, tResult, tPc, resp, newsCache, now>>

Spec == Init /\ [][Next]_vars

\* _truncate_text called once on each text and limit
TruncateInit == TruncInit /\ LLMIdle /\ resp = NoResp /\ FetchIdle

TruncateNext == Truncate /\ UNCHANGED <<unit, sumCache, senCache, call, resp, newsCache, now>>

SpecTruncate == TruncateInit /\ [][TruncateNext]_vars

-----------------------------------------------------------------------------
(* backend_api/main.py: POST /analyze.  The summarizer and analyzer classes
   keep their _cache dicts across requests; NewsClient is built per request,
   so its cache is empty at every fetch.  A deployment uses one provider
   (LLM_PROVIDER), which is the unit followed. *)

EndpointUnits == {"endpoint.gemini", "endpoint.openai", "endpoint.other"}

\* the length below which a scraped body is dropped, and which a description
\* must exceed to stand in for it
MinContentLength == 50

\* what get_news_from_url returns: None, or an item with content of a length
NoItem == [found |-> FALSE, content |-> 0]
Item(n) == [found |-> TRUE, content |-> n]

\* what requests.get and the parse of the page give: a timeout, another
\* RequestException (raise_for_status included), or a page with a body of
\* `content` characters and an og:description of `description` characters
\* (-1: no such tag)
FetchResults ==
    {[kind |-> k, status |-> 0, content |-> 0, description |-> -1, published |-> "none"] :
        k \in {"timeout", "connection_error"}}
    \cup {[kind |-> "http_error", status |-> 404, content |-> 0, description |-> -1,
            published |-> "none"]}
    \cup {[kind |-> "page", status |-> 200, content |-> c, description |-> d,
            published |-> "meta"] :
            c \in {0, MinContentLength - 1, MinContentLength},
            d \in {-1, MinContentLength, MinContentLength + 1}}
    \cup {[kind |-> "page", status |-> 200, content |-> c, description |-> -1,
            published |-> p] :
            c \in {0, MinContentLength}, p \in {"none", "time_datetime"}}

\* NewsClient.get_news_from_url: the exception raised, or the length of the
\* content of the NewsItem returned (None: no item).  The decorator retries
\* on RequestException only, which the function never lets out.
GetNewsFromUrl(fetch) ==
    IF fetch.kind = "timeout" THEN Raised("NewsAPIException", NoItem)
    ELSE IF fetch.kind \in {"connection_error", "http_error"}
         THEN Raised("NewsAPIException", NoItem)
    ELSE IF fetch.published = "time_datetime"
         THEN \* published_time is the <time> tag's datetime string, and
              \* published_time['content'] indexes a str with a str
              Raised("TypeError", NoItem)
    ELSE IF fetch.content = 0 \/ fetch.content < MinContentLength
         THEN IF fetch.description # -1 /\ fetch.description > MinContentLength
              THEN Returned(Item(fetch.description))
              ELSE Returned(NoItem)
    ELSE Returned(Item(fetch.content))

\* the model behaviours the endpoint's requests meet
EndpointSummaryAttempts ==
    IF unit = "endpoint.gemini"
    THEN Attempts(GeminiSummaryOutputs,
                  {SummaryOut("raise", <<>>), SummaryOut("blocked_prompt", <<>>)})
    ELSE {[i \in 1..StopAfterAttempt |-> a] : a \in OpenAISummaryOutputs}

EndpointSentimentAttempts ==
    LET texts == {[kind |-> "text", raw |-> SentimentRaw("notjson", FALSE, "<absent>", [t |-> "absent", v |-> 0])],
                  [kind |-> "text", raw |-> SentimentRaw("object", FALSE, "<absent>", [t |-> "int", v |-> 40])]}
        fails == IF unit = "endpoint.gemini" THEN {"raise", "blocked_prompt"}
                 ELSE {"raise", "no_content"}
    IN  Attempts(texts \cup {[kind |-> "raise", raw |-> NoRaw]}
                       \cup {[kind |-> k, raw |-> NoRaw] : k \in fails},
                 {[kind |-> "raise", raw |-> NoRaw]})

\* a stage that was not run
NotRun(value) == Outcome(<<>>, "none", "none", value, 0)

\* the response of the endpoint
Response(status, detail, cause, summary, sentiment) ==
    [status |-> status, detail |-> detail, cause |-> cause,
     summary |-> summary, sentiment |-> sentiment]

\* the record a request leaves: whether an LLM key was configured or sent,
\* what the fetch gave ("raised", "none", "item"; "skipped" before the
\* fetch), the cleaned text, and the outcome of each stage's call
Request(hasKey, fetched, processed, sum, sen) ==
    [op |-> "analyze_news", hasKey |-> hasKey, fetched |-> fetched, processed |-> processed,
     sum |-> [path |-> sum.path, exc |-> sum.exc, value |-> sum.value, calls |-> sum.calls],
     sen |-> [path |-> sen.path, exc |-> sen.exc, value |-> sen.value, calls |-> sen.calls]]

\* the result of the endpoint: response, caches, record
Result(r, sc, nc, q) == [resp |-> r, sumCache |-> sc, senCache |-> nc, call |-> q]

\* the except clauses of the endpoint's try block, for exception exc
EndpointHandlers(exc) ==
    IF IsInstance(exc, "NewsAPIException")
    THEN Response(500, "An error occurred while processing the news", exc, NoneStr, NoSentiment)
    ELSE Response(500, "An unknown error occurred", exc, NoneStr, NoSentiment)

\* summarizer.summarize / sentiment_analyzer.analyze of the provider
ProviderSummarize(cache, text, length_option, outs) ==
    IF unit = "endpoint.gemini" THEN SummarizeGemini(cache, text, length_option, outs)
    ELSE SummarizeOpenAI(cache, text, length_option, outs[1])

ProviderAnalyze(cache, text, outs) ==
    IF unit = "endpoint.gemini" THEN AnalyzeLikertGemini(cache, text, outs)
    ELSE AnalyzeOpenAI(cache, text, outs[1])

\* steps 3 and 4 of the try block, and the response, for a fetched item whose
\* cleaned text is `processed`; the endpoint gets here with a key only
AnalyzeStages(processed, length_option, sumOuts, senOuts) ==
    LET s == IF processed # <<>>
             THEN ProviderSummarize(sumCache, processed, length_option, sumOuts)
             ELSE Outcome(sumCache, "none", "none", <<"No content to summarize.">>, 0)
    IN  IF s.exc # "none" /\ ~IsInstance(s.exc, "summarizer.SummarizerException")
        THEN Result(EndpointHandlers(s.exc), s.cache, senCache,
                    Request(TRUE, "item", processed, s, NotRun(NoSentiment)))
        ELSE
        LET summary == IF s.exc = "none" THEN s.value ELSE <<"Summarization failed">>
            a == IF processed # <<>>
                 THEN ProviderAnalyze(senCache, processed, senOuts)
                 ELSE Outcome(senCache, "none", "none",
                              SentimentResult("Neutral (No Content)", 30), 0)
        IN  IF a.exc # "none" /\ ~IsInstance(a.exc, "SentimentException")
            THEN Result(EndpointHandlers(a.exc), s.cache, a.cache,
                        Request(TRUE, "item", processed, s, a))
            ELSE LET sentiment == IF a.exc = "none" THEN a.value
                                  ELSE SentimentResult("Neutral (Analysis Failed)", 30)
                 IN  Result(Response(200, "none", "none", summary, sentiment),
                            s.cache, a.cache, Request(TRUE, "item", processed, s, a))

\* analyze_news_endpoint
AnalyzeNewsEndpoint(hasKey, fetch, cleaned, length_option, sumOuts, senOuts) ==
    IF ~hasKey
    THEN Result(Response(500, "LLM_API_KEY not configured", "none", NoneStr, NoSentiment),
                sumCache, senCache,
                Request(hasKey, "skipped", <<>>, NotRun(NoneStr), NotRun(NoSentiment)))
    ELSE IF unit \notin {"endpoint.gemini", "endpoint.openai"}
    THEN Result(Response(400, "Unsupported LLM provider", "none", NoneStr, NoSentiment),
                sumCache, senCache,
                Request(hasKey, "skipped", <<>>, NotRun(NoneStr), NotRun(NoSentiment)))
    ELSE LET news_item == GetNewsFromUrl(fetch)
         IN  IF news_item.exc # "none"
             THEN Result(EndpointHandlers(news_item.exc), sumCache, senCache,
                         Request(hasKey, "raised", <<>>, NotRun(NoneStr), NotRun(NoSentiment)))
             ELSE IF ~news_item.value.found
             THEN \* raise HTTPException(status_code=400, ...) inside the try block
                  Result(EndpointHandlers("HTTPException"), sumCache, senCache,
                         Request(hasKey, "none", <<>>, NotRun(NoneStr), NotRun(NoSentiment)))
             ELSE AnalyzeStages(cleaned, length_option, sumOuts, senOuts)

\* what extract_and_clean gives for an item: nothing (a body of markup
\* only) or a text
CleanedTexts == {<<>>, <<"a">>}

EndpointInit ==
    /\ unit \in EndpointUnits
    /\ sumCache = <<>>
    /\ senCache = <<>>
    /\ call = NoCall
    /\ resp = NoResp

AnalyzeNews ==
    /\ unit \in EndpointUnits
    /\ \E hasKey \in BOOLEAN, fetch \in FetchResults, cleaned \in CleanedTexts,
          length_option \in Lengths,
          sumOuts \in EndpointSummaryAttempts, senOuts \in EndpointSentimentAttempts :
          LET r == AnalyzeNewsEndpoint(hasKey, fetch, cleaned, length_option, sumOuts, senOuts)
          IN  /\ resp' = r.resp
              /\ sumCache' = r.sumCache
              /\ senCache' = r.senCache
              /\ call' = r.call
    /\ UNCHANGED unit

EndpointNext == AnalyzeNews /\ UNCHANGED <<tText, tMaxLength, tResult, tPc, newsCache, now>>

EndpointStart == TruncIdle /\ EndpointInit /\ FetchIdle

SpecEndpoint == EndpointStart /\ [][EndpointNext]_vars

-----------------------------------------------------------------------------
(* The first summarize call of a process of services/summarizer.py, over
   model answers of up to MaxLines lines *)

\* the most lines a model answer has
MaxLines == 3

\* the lines the answers are made of: empty, plain, indented plain, a lone
\* dash, a bullet, a conclusion
AnswerLines ==
    {<<>>, <<"x">>, <<" ", "y">>, <<"-">>,
     BulletMarker \o <<"x">>, ConclusionMarker \o <<" ", "y">>}

AnswerTexts ==
    {Join(<<"\n">>, ls) : ls \in UNION {[1..n -> AnswerLines] : n \in 1..MaxLines}}

OnceInit ==
    /\ unit = "services.summarizer"
    /\ sumCache = <<>>
    /\ senCache = <<>>
    /\ call = NoCall

DoSummarizeOnce ==
    /\ unit = "services.summarizer"
    /\ call = NoCall
    /\ \E text \in Texts \ {<<>>}, raw \in AnswerTexts :
          LET out == SummaryOut("text", raw)
              o   == SummarizeServices(sumCache, text, <<"medium">>, out)
          IN  /\ sumCache' = o.cache
              /\ call' = CallRec("summarize", text, <<"medium">>, <<out>>, o)
    /\ UNCHANGED <<unit, senCache>>

SummarizeOnceInit == TruncIdle /\ OnceInit /\ resp = NoResp /\ FetchIdle

\* _parse_summary_output applied to the summary the call returned, as when
\* a summary read back from the cache is validated again
DoParseAgain ==
    /\ unit = "services.summarizer"
    /\ call.op = "summarize"
    /\ call.path = "ok"
    /\ resp = NoResp
    /\ resp' = [NoResp EXCEPT !.detail = "parsed again",
                              !.summary = ParseSummaryOutput(call.value)]
    /\ UNCHANGED <<unit, sumCache, senCache, call>>

SummarizeOnceNext ==
    \/ DoSummarizeOnce /\ UNCHANGED <<tText, tMaxLength, tResult, tPc, resp, newsCache, now>>
    \/ DoParseAgain /\ UNCHANGED <<tText, tMaxLength, tResult, tPc, newsCache, now>>

SpecSummarizeOnce == SummarizeOnceInit /\ [][SummarizeOnceNext]_vars

-----------------------------------------------------------------------------
(* backend_api/services/news_client.py: NewsClient.get_news and
   NewsClient.get_news_from_url with their retry decorators and the fetch
   cache *)

\* NewsClient.CACHE_TTL_SECONDS
CacheTtlSeconds == 300

\* the latest time.time() the clock is advanced to
MaxTime == 300

\* the article lists NewsAPI answers with
ArticlesA == <<Item(10)>>
ArticlesB == <<Item(10), Item(20)>>

\* what requests.get, raise_for_status and the body give for one request to
\* NewsAPI: a timeout, a connection error, an HTTP error status, too many
\* redirects (the exception carries the 302 response), or a 200 response
\* whose body is JSON with a list of articles, or is not JSON
ApiResponse(kind, status, json, articles) ==
    [kind |-> kind, status |-> status, json |-> json, articles |-> articles]

ApiResponses ==
    {ApiResponse(k, 0, FALSE, <<>>) : k \in {"timeout", "connection_error"}}
    \cup {ApiResponse("http_error", s, FALSE, <<>>) : s \in {429, 500}}
    \cup {ApiResponse("redirects", 302, FALSE, <<>>)}
    \cup {ApiResponse("ok", 200, TRUE, a) : a \in {<<>>, ArticlesA, ArticlesB}}
    \cup {ApiResponse("ok", 200, FALSE, <<>>)}

\* the searches get_news is called with: they differ in q_in_title only
Queries == {[keyword |-> "k", q_in_title |-> t] : t \in {"<None>", "t"}}

\* json.dumps(cache_key_params, sort_keys=True): one string per parameter
\* assignment, the keys in sorted order
CacheKey(query) == <<"keyword", query.keyword, "q_in_title", query.q_in_title>>

\* the pages get_news_from_url is called with
Urls == {<<"u", "1">>}

\* the exception requests raises for a response, and whether it carries one
RequestExc(kind) ==
    CASE kind = "timeout"          -> "Timeout"
      [] kind = "connection_error" -> "ConnectionError"
      [] kind = "http_error"       -> "HTTPError"
      [] kind = "redirects"        -> "TooManyRedirects"
      [] OTHER                     -> "none"

HasResponse(kind) == kind \in {"http_error", "redirects"}

\* bool(response): requests.Response.__bool__ is response.ok, which is
\* False for the 4xx and 5xx statuses raise_for_status raises on
ResponseTruthy(status) == status < 400

\* a fresh entry: `key in _news_cache and time.time() - stamp < TTL`
CacheFreshWithoutTtl(cache, t, key) == key \in DOMAIN cache.items

CacheFresh(cache, t, key) ==
    /\ key \in DOMAIN cache.items
    /\ t - (IF key \in DOMAIN cache.stamps THEN cache.stamps[key] ELSE 0) < CacheTtlSeconds

CacheStore(cache, t, key, value) ==
    [items |-> Put(cache.items, key, value), stamps |-> Put(cache.stamps, key, t)]

\* the result of one run of a NewsClient method's body: the exception class
\* (with NewsAPIException's status_code, 0 for None, and which message) or
\* the value returned, the cache afterwards, and whether a request was sent
ClientResult(exc, status_code, msg, value, cache, requested) ==
    [exc |-> exc, status_code |-> status_code, msg |-> msg, value |-> value,
     cache |-> cache, requested |-> requested]

\* the body of get_news
GetNewsOnce(cache, t, hasKey, query, r) ==
    IF ~hasKey
    THEN ClientResult("NewsAPIException", 0, "no_key", <<>>, cache, FALSE)
    ELSE IF CacheFresh(cache, t, CacheKey(query))
    THEN ClientResult("none", 0, "none", cache.items[CacheKey(query)], cache, FALSE)
    ELSE IF IsInstance(RequestExc(r.kind), "Timeout")
    THEN ClientResult("NewsAPIException", 0, "timeout", <<>>, cache, TRUE)
    ELSE IF IsInstance(RequestExc(r.kind), "RequestException")
    THEN IF HasResponse(r.kind) /\ ResponseTruthy(r.status)
         THEN IF r.status = 429
              THEN ClientResult("NewsAPIException", r.status, "rate_limit", <<>>, cache, TRUE)
              ELSE ClientResult("NewsAPIException", r.status, "status", <<>>, cache, TRUE)
         ELSE ClientResult("NewsAPIException", 0, "request_error", <<>>, cache, TRUE)
    ELSE IF ~r.json
    THEN ClientResult("requests.JSONDecodeError", 0, "none", <<>>, cache, TRUE)
    ELSE IF r.articles = <<>>
    THEN ClientResult("none", 0, "none", <<>>, cache, TRUE)
    ELSE ClientResult("none", 0, "none", r.articles,
                      CacheStore(cache, t, CacheKey(query), r.articles), TRUE)

\* get_news's retry= predicate
GetNewsRetryEveryNewsAPIException(o) ==
    \/ IsInstance(o.exc, "RequestException")
    \/ o.exc = "NewsAPIException"

GetNewsRetry(o) ==
    \/ IsInstance(o.exc, "RequestException")
    \/ o.exc = "NewsAPIException" /\ o.status_code = 429

\* the end of a decorated call: the last run's result, the responses the
\* requests got, in order, and the number of runs of the body
ClientRun(o, outs, attempts) ==
    [exc |-> o.exc, status_code |-> o.status_code, msg |-> o.msg, value |-> o.value,
     cache |-> o.cache, outs |-> outs, requests |-> Len(outs), attempts |-> attempts,
     cause |-> "none"]

\* tenacity without reraise: the last failure wrapped in a RetryError
RetryError(o, outs, attempts) ==
    [exc |-> "RetryError", status_code |-> 0, msg |-> "none", value |-> <<>>,
     cache |-> o.cache, outs |-> outs, requests |-> Len(outs), attempts |-> attempts,
     cause |-> o.exc]

Sent(outs, o, r) == IF o.requested THEN Append(outs, r) ELSE outs

\* the runs of get_news under @retry(stop=stop_after_attempt(3), retry=...):
\* every response the n-th run of the body can get, after the responses outs
RECURSIVE GetNewsAttempt(_, _, _, _, _, _)
GetNewsAttempt(cache, t, hasKey, query, n, outs) ==
    UNION {LET o == GetNewsOnce(cache, t, hasKey, query, r)
           IN  IF o.exc = "none" \/ ~GetNewsRetry(o)
               THEN {ClientRun(o, Sent(outs, o, r), n)}
               ELSE IF n >= StopAfterAttempt
               THEN {RetryError(o, Sent(outs, o, r), n)}
               ELSE GetNewsAttempt(o.cache, t, hasKey, query, n + 1, Sent(outs, o, r))
           : r \in ApiResponses}

GetNews(cache, t, hasKey, query) == GetNewsAttempt(cache, t, hasKey, query, 1, <<>>)

\* e.response.status_code if e.response is not None else None
UrlStatusCode(fetch) == IF HasResponse(fetch.kind) THEN fetch.status ELSE 0

\* the body of get_news_from_url
GetNewsFromUrlOnce(cache, t, url, fetch) ==
    IF CacheFresh(cache, t, url)
    THEN ClientResult("none", 0, "none", cache.items[url], cache, FALSE)
    ELSE LET o == GetNewsFromUrl(fetch)
         IN  IF o.exc # "none"
             THEN ClientResult(o.exc, UrlStatusCode(fetch),
                               IF fetch.kind = "timeout" THEN "url_timeout"
                               ELSE IF o.exc = "NewsAPIException" THEN "url_failed"
                               ELSE "none",
                               NoItem, cache, TRUE)
             ELSE IF ~o.value.found
             THEN ClientResult("none", 0, "none", NoItem, cache, TRUE)
             ELSE ClientResult("none", 0, "none", o.value,
                               CacheStore(cache, t, url, o.value), TRUE)

\* get_news_from_url's retry= predicate
GetNewsFromUrlRetry(o) == IsInstance(o.exc, "RequestException")

RECURSIVE GetNewsFromUrlAttempt(_, _, _, _, _)
GetNewsFromUrlAttempt(cache, t, url, n, outs) ==
    UNION {LET o == GetNewsFromUrlOnce(cache, t, url, fetch)
           IN  IF o.exc = "none" \/ ~GetNewsFromUrlRetry(o)
               THEN {ClientRun(o, Sent(outs, o, fetch), n)}
               ELSE IF n >= StopAfterAttempt
               THEN {RetryError(o, Sent(outs, o, fetch), n)}
               ELSE GetNewsFromUrlAttempt(o.cache, t, url, n + 1, Sent(outs, o, fetch))
           : fetch \in FetchResults}

GetNewsFromUrlRetrying(cache, t, url) == GetNewsFromUrlAttempt(cache, t, url, 1, <<>>)

\* services/news_client.py NewsClient.get_news: no cache, no retry, and a
\* NewsAPIException without status_code
ServicesGetNews(cache, r) ==
    IF IsInstance(RequestExc(r.kind), "Timeout")
    THEN ClientResult("NewsAPIException", 0, "timeout", <<>>, cache, TRUE)
    ELSE IF IsInstance(RequestExc(r.kind), "RequestException")
    THEN IF HasResponse(r.kind) /\ ResponseTruthy(r.status)
         THEN IF r.status = 429
              THEN ClientResult("NewsAPIException", 0, "rate_limit", <<>>, cache, TRUE)
              ELSE ClientResult("NewsAPIException", 0, "status", <<>>, cache, TRUE)
         ELSE ClientResult("NewsAPIException", 0, "request_error", <<>>, cache, TRUE)
    ELSE IF ~r.json
    THEN ClientResult("requests.JSONDecodeError", 0, "none", <<>>, cache, TRUE)
    ELSE ClientResult("none", 0, "none", r.articles, cache, TRUE)

\* whether the NewsClient was built with an api_key
NewsClientUnits == {"news_client.key", "news_client.nokey"}

\* the most recent call of a NewsClient method: the cache and the clock it
\* started from, and how it ended
ClientCall(op, key, run) ==
    [op |-> op, key |-> key, before |-> newsCache, at |-> now,
     exc |-> run.exc, status_code |-> run.status_code, msg |-> run.msg,
     value |-> run.value, outs |-> run.outs, requests |-> run.requests,
     attempts |-> run.attempts, cause |-> run.cause]

NewsClientInit ==
    /\ TruncIdle
    /\ unit \in NewsClientUnits
    /\ sumCache = <<>>
    /\ senCache = <<>>
    /\ call = NoCall
    /\ resp = NoResp
    /\ FetchIdle

DoGetNews ==
    /\ unit \in NewsClientUnits
    /\ \E query \in Queries :
          \E run \in GetNews(newsCache, now, unit = "news_client.key", query) :
              /\ newsCache' = run.cache
              /\ call' = ClientCall("get_news", CacheKey(query), run)
    /\ UNCHANGED now

DoGetNewsFromUrl ==
    /\ unit \in NewsClientUnits
    /\ \E url \in Urls :
          \E run \in GetNewsFromUrlRetrying(newsCache, now, url) :
              /\ newsCache' = run.cache
              /\ call' = ClientCall("get_news_from_url", url, run)
    /\ UNCHANGED now

\* get_news of the NewsClient of services/news_client.py, which is always
\* built with a key
DoServicesGetNews ==
    /\ unit = "news_client.key"
    /\ \E r \in ApiResponses :
          call' = ClientCall("services.get_news", <<"k">>,
                             ClientRun(ServicesGetNews(newsCache, r), <<r>>, 1))
    /\ UNCHANGED <<newsCache, now>>

\* time passes between two calls
Tick ==
    /\ unit \in NewsClientUnits
    /\ \E d \in {CacheTtlSeconds - 1, CacheTtlSeconds} :
          /\ now + d <= MaxTime
          /\ now' = now + d
    /\ UNCHANGED <<newsCache, call>>

NewsClientNext ==
    \/ DoGetNews /\ UNCHANGED <<tText, tMaxLength, tResult, tPc, unit, sumCache, senCache, resp>>
    \/ DoGetNewsFromUrl /\ UNCHANGED <<tText, tMaxLength, tResult, tPc, unit, sumCache, senCache, resp>>
    \/ DoServicesGetNews /\ UNCHANGED <<tText, tMaxLength, tResult, tPc, unit, sumCache, senCache, resp>>
    \/ Tick /\ UNCHANGED <<tText, tMaxLength, tResult, tPc, unit, sumCache, senCache, resp>>

SpecNewsClient == NewsClientInit /\ [][NewsClientNext]_vars

\* the operations that need a credential: get_news of a NewsClient and the
\* /analyze endpoint
BoundaryStart == NewsClientInit \/ EndpointStart

BoundaryNext == NewsClientNext \/ EndpointNext

SpecBoundary == BoundaryStart /\ [][BoundaryNext]_vars

-----------------------------------------------------------------------------
(* services/text_extract.py: extract_and_clean over items whose content is
   made of up to MaxTokens pieces *)

\* the most pieces a content is made of
MaxTokens == 3

\* extract_and_clean's default max_length
DefaultMaxLength == 4000

\* len('Very short.'), the content of the test of a very short content
VeryShortLength == 11

\* a word longer than 'Very short.'
LongWord == [i \in 1..(VeryShortLength + 1) |-> "w"]

\* the pieces of a content: a letter, a space, a newline, a tag, a long word
ContentTokens == {<<"a">>, <<" ">>, <<"\n">>, <<"<", "p", ">">>, LongWord}

RECURSIVE Flatten(_)
Flatten(parts) == IF parts = <<>> THEN <<>> ELSE Head(parts) \o Flatten(Tail(parts))

\* NewsItem.content: None or a string
Contents ==
    {NoneStr} \cup {Flatten(ts) : ts \in UNION {[1..k -> ContentTokens] : k \in 0..MaxTokens}}

\* the NewsItems extract_and_clean is called with
NewsItems ==
    [content : Contents,
     title : {<<"T">>, <<"<", "b", ">", "T">>},
     description : {NoneStr, <<"D">>, <<"<", "i", ">", "D">>},
     source_name : {<<"S">>}]

\* BeautifulSoup(text, "lxml").get_text() of well-formed markup: the text
\* outside the tags
RECURSIVE GetText(_, _)
GetText(s, inTag) ==
    IF s = <<>> THEN <<>>
    ELSE IF inTag THEN GetText(Tail(s), Head(s) # ">")
    ELSE IF Head(s) = "<" THEN GetText(Tail(s), TRUE)
    ELSE <<Head(s)>> \o GetText(Tail(s), FALSE)

RemoveHtmlTags(text) == IF Falsy(text) THEN <<>> ELSE GetText(text, FALSE)

\* re.sub(r'\s+', ' ', text)
RECURSIVE SubWhitespace(_, _)
SubWhitespace(s, inRun) ==
    IF s = <<>> THEN <<>>
    ELSE IF IsSpace(Head(s))
         THEN (IF inRun THEN <<>> ELSE <<" ">>) \o SubWhitespace(Tail(s), TRUE)
    ELSE <<Head(s)>> \o SubWhitespace(Tail(s), FALSE)

RemoveWhitespace(text) == IF Falsy(text) THEN <<>> ELSE Strip(SubWhitespace(text, FALSE))

\* 'source: ' in Korean, two Hangul syllables, a colon and a space
SourceLabel == <<"chul", "cheo", ":", " ">>

\* the replacement text built from title, description and source_name
AltText(news_item) ==
    news_item.title \o <<".", " ">>
        \o (IF ~Falsy(news_item.description) THEN news_item.description \o <<" ">> ELSE <<>>)
        \o SourceLabel \o news_item.source_name \o <<".">>

\* extract_and_clean; BeautifulSoup does not raise on the contents above
ExtractAndClean(news_item, max_length) ==
    IF ~Falsy(news_item.content)
    THEN TruncateText(RemoveWhitespace(RemoveHtmlTags(news_item.content)), max_length)
    ELSE TruncateText(RemoveWhitespace(AltText(news_item)), max_length)

ExtractInit ==
    /\ TruncIdle
    /\ unit = "text_extract"
    /\ sumCache = <<>>
    /\ senCache = <<>>
    /\ call = NoCall
    /\ resp = NoResp
    /\ FetchIdle

DoExtractAndClean ==
    /\ unit = "text_extract"
    /\ call = NoCall
    /\ \E news_item \in NewsItems, max_length \in 0..(MaxLen + 1) \cup {DefaultMaxLength} :
          call' = [op |-> "extract_and_clean", news_item |-> news_item,
                   max_length |-> max_length,
                   value |-> ExtractAndClean(news_item, max_length)]

ExtractNext ==
    DoExtractAndClean
        /\ UNCHANGED <<tText, tMaxLength, tResult, tPc, unit, sumCache, senCache, resp,
                       newsCache, now>>

SpecExtract == ExtractInit /\ [][ExtractNext]_vars

-----------------------------------------------------------------------------
(* backend_api/main.py: the provider settings of analyze_news_endpoint *)

\* a or b, for Optional[str] operands
OrRequestFirst(a, b) == IF ~Falsy(b) THEN b ELSE a

Or(a, b) == IF ~Falsy(a) THEN a ELSE b

\* str(request.llm_api_base): the text of the HttpUrl
StrUrl(u) == u.url

\* what os.getenv gives for the four variables: None when unset, else the
\* value, which can be empty
Environments ==
    [LLM_API_KEY  : {NoneStr, <<>>, <<"e", "k">>},
     LLM_PROVIDER : {NoneStr, <<"openai">>},
     LLM_MODEL    : {NoneStr, <<>>, <<"e", "m">>},
     LLM_API_BASE : {NoneStr, <<"e", "b">>}]

\* the LLM fields of AnalyzeRequest
NoUrl == [url |-> NoneStr]

AnalyzeRequests ==
    [llm_api_key  : {NoneStr, <<>>, <<"r", "k">>},
     llm_provider : {NoneStr, <<"gemini">>},
     llm_model    : {NoneStr, <<"r", "m">>},
     llm_api_base : {NoUrl, [url |-> <<"r", "b">>]}]

\* the settings analyze_news_endpoint works with; status 500 when no key is
\* found, before the other settings are looked at
LlmConfig(env, request) ==
    LET llm_api_key_used == Or(env.LLM_API_KEY, request.llm_api_key)
    IN  IF Falsy(llm_api_key_used)
        THEN [status |-> 500, api_key |-> NoneStr, provider |-> NoneStr,
              model |-> NoneStr, api_base |-> NoneStr]
        ELSE [status |-> 0,
              api_key  |-> llm_api_key_used,
              provider |-> Or(Or(env.LLM_PROVIDER, request.llm_provider), <<"gemini">>),
              model    |-> Or(env.LLM_MODEL, request.llm_model),
              api_base |-> Or(env.LLM_API_BASE,
                              IF request.llm_api_base # NoUrl
                              THEN StrUrl(request.llm_api_base) ELSE NoneStr)]

ConfigInit ==
    /\ TruncIdle
    /\ unit = "endpoint.config"
    /\ sumCache = <<>>
    /\ senCache = <<>>
    /\ call = NoCall
    /\ resp = NoResp
    /\ FetchIdle

\* the first lines of one /analyze request
ResolveConfig ==
    /\ unit = "endpoint.config"
    /\ call = NoCall
    /\ \E env \in Environments, request \in AnalyzeRequests :
          call' = [op |-> "resolve_config", env |-> env, request |-> request,
                   used |-> LlmConfig(env, request)]

ConfigNext ==
    ResolveConfig
        /\ UNCHANGED <<tText, tMaxLength, tResult, tPc, unit, sumCache, senCache, resp,
                       newsCache, now>>

SpecConfig == ConfigInit /\ [][ConfigNext]_vars

-----------------------------------------------------------------------------
(* backend_api/main.py: POST /analyze requests one after the other in one
   process, with the clock and the NewsClient each request builds *)

\* the article URLs the requests name
AnalyzeUrls == {<<"u", "1">>, <<"u", "2">>}

\* the model behaviours of the stages: every attempt answers, or every
\* attempt raises
RepeatSummaryAttempts ==
    {[i \in 1..StopAfterAttempt |-> SummaryOut(k, IF k = "text" THEN RawPadded ELSE <<>>)] :
        k \in {"text", "raise"}}

RepeatSentimentAttempts ==
    {[i \in 1..StopAfterAttempt |->
        [kind |-> "text", raw |-> SentimentRaw("object", FALSE, "<absent>", [t |-> "int", v |-> 40])]],
     [i \in 1..StopAfterAttempt |-> [kind |-> "raise", raw |-> NoRaw]]}

\* no request came before
NoPrevious == [url |-> <<>>, at |-> 0, gets |-> 0, fetched |-> "skipped"]

\* what is kept of a request: its URL, when it came, the HTTP GETs made for
\* the URL, what the fetch gave, and the same of the request before it
Previous(c) ==
    IF c.op = "analyze_url"
    THEN [url |-> c.url, at |-> c.at, gets |-> c.gets, fetched |-> c.fetched]
    ELSE NoPrevious

RepeatInit ==
    /\ TruncIdle
    /\ unit = "endpoint.gemini"
    /\ sumCache = <<>>
    /\ senCache = <<>>
    /\ call = NoCall
    /\ resp = NoResp
    /\ FetchIdle

\* one request with an LLM key: `news_client = NewsClient()` starts from
\* empty dicts, get_news_from_url runs under its decorator, and the rest of
\* the endpoint follows
AnalyzeUrl ==
    /\ unit = "endpoint.gemini"
    /\ \E url \in AnalyzeUrls, cleaned \in CleanedTexts,
          sumOuts \in RepeatSummaryAttempts, senOuts \in RepeatSentimentAttempts :
          \E run \in GetNewsFromUrlRetrying(NoNewsCache, now, url) :
              LET r == AnalyzeNewsEndpoint(TRUE, run.outs[Len(run.outs)], cleaned,
                                           <<"medium">>, sumOuts, senOuts)
              IN  /\ resp' = r.resp
                  /\ sumCache' = r.sumCache
                  /\ senCache' = r.senCache
                  /\ newsCache' = run.cache
                  /\ call' = [op |-> "analyze_url", url |-> url, at |-> now,
                              gets |-> run.requests, fetched |-> r.call.fetched,
                              previous |-> Previous(call)]
    /\ UNCHANGED <<unit, now>>

\* time passes between two requests
EndpointTick ==
    /\ unit = "endpoint.gemini"
    /\ \E d \in {CacheTtlSeconds - 1, CacheTtlSeconds} :
          /\ now + d <= MaxTime
          /\ now' = now + d
    /\ UNCHANGED <<unit, sumCache, senCache, call, resp, newsCache>>

RepeatNext ==
    \/ AnalyzeUrl /\ UNCHANGED <<tText, tMaxLength, tResult, tPc>>
    \/ EndpointTick /\ UNCHANGED <<tText, tMaxLength, tResult, tPc>>

SpecRepeat == RepeatInit /\ [][RepeatNext]_vars

-----------------------------------------------------------------------------
(* app.py: the dashboard's search-and-analyse run *)

\* the most articles one search returns in the model
MaxArticles == 2

\* the articles a search returns: without content, with blank content, with text
PipelineItems ==
    {[content |-> c, title |-> <<"T">>, description |-> NoneStr, source_name |-> <<"S">>] :
        c \in {NoneStr, <<" ">>, <<"a">>}}

\* what news_client.get_news does: raise NewsAPIException, or return a list
SearchResults ==
    {Raised("NewsAPIException", <<>>)}
    \cup {Returned(items) : items \in UNION {[1..n -> PipelineItems] : n \in 0..MaxArticles}}

\* what the model answers for one article's summary and sentiment prompts
PipelineSummaryOutputs ==
    {SummaryOut("raise", <<>>), SummaryOut("blocked_prompt", <<>>),
     SummaryOut("text", RawMarked)}

PipelineSentimentOutputs ==
    {[kind |-> "raise", raw |-> NoRaw],
     [kind |-> "text", raw |-> SentimentRaw("object", FALSE, "positive", [t |-> "float", v |-> 2])]}

\* the texts main assigns itself: the summary of a failed summarization, the
\* summary and the sentiments of an article without content or a failed analysis
SummaryFailed     == <<"(summary failed)">>
SummaryNoContent  == <<"(no content to summarize)">>
SentimentFailed    == SentimentResult("neutral (failed)", 0)
SentimentNoContent == SentimentResult("neutral (no content)", 0)

\* the element of a set of one element
TheOnly(S) == CHOOSE x \in S : TRUE

\* what the summary step leaves of the outcome o of summarize when no except
\* clause follows the call
SummaryUncaught(o) == [cache |-> o.cache, exc |-> o.exc, summary |-> o.value]

\* what the summary step leaves of the outcome o of summarize: the except
\* clause turns a SummarizerException into the text of a failed summary
SummaryCaught(o) ==
    IF o.exc = "none" THEN [cache |-> o.cache, exc |-> "none", summary |-> o.value]
    ELSE IF IsInstance(o.exc, "summarizer.SummarizerException")
    THEN [cache |-> o.cache, exc |-> "none", summary |-> SummaryFailed]
    ELSE [cache |-> o.cache, exc |-> o.exc, summary |-> NoneStr]

\* the summary step of the loop body without its except clause
SummaryStepUncaught(cache, processed_content, summary_length, out) ==
    IF Falsy(processed_content)
    THEN [cache |-> cache, exc |-> "none", summary |-> SummaryNoContent]
    ELSE TheOnly({SummaryUncaught(o) :
                     o \in {SummarizeServices(cache, processed_content, summary_length, out)}})

\* the summary step of the loop body
SummaryStep(cache, processed_content, summary_length, out) ==
    IF Falsy(processed_content)
    THEN [cache |-> cache, exc |-> "none", summary |-> SummaryNoContent]
    ELSE TheOnly({SummaryCaught(o) :
                     o \in {SummarizeServices(cache, processed_content, summary_length, out)}})

\* what the sentiment step leaves of the outcome o of analyze
SentimentCaught(o) ==
    IF o.exc = "none" THEN [cache |-> o.cache, exc |-> "none", sentiment |-> o.value]
    ELSE IF IsInstance(o.exc, "SentimentException")
    THEN [cache |-> o.cache, exc |-> "none", sentiment |-> SentimentFailed]
    ELSE [cache |-> o.cache, exc |-> o.exc, sentiment |-> NoSentiment]

\* the sentiment step of the loop body
SentimentStep(cache, inst, processed_content, out) ==
    IF Falsy(processed_content)
    THEN [cache |-> cache, exc |-> "none", sentiment |-> SentimentNoContent]
    ELSE TheOnly({SentimentCaught(o) :
                     o \in {AnalyzeThreshold(cache, inst, processed_content, out)}})

\* the processed Article: the item with processed_content, summary, sentiment
Article(item, processed_content, summary, sentiment) ==
    [item |-> item, processed_content |-> processed_content,
     summary |-> summary, sentiment |-> sentiment]

\* the rest of the loop body after the two steps ended as s and a: an
\* exception that left a step is kept in exc, otherwise the item is appended
Appended(acc, item, processed_content, s, a) ==
    IF s.exc # "none"
    THEN [acc EXCEPT !.sumCache = s.cache, !.exc = s.exc]
    ELSE IF a.exc # "none"
    THEN [acc EXCEPT !.sumCache = s.cache, !.senCache = a.cache, !.exc = a.exc]
    ELSE [acc EXCEPT !.sumCache = s.cache, !.senCache = a.cache,
                     !.processed = Append(@, Article(item, processed_content,
                                                     s.summary, a.sentiment))]

\* the two steps for an item with the given processed_content; the sentiment
\* step is not reached when the summary step let an exception out
Analyzed(acc, inst, item, processed_content, summary_length, sumOut, senOut) ==
    TheOnly({Appended(acc, item, processed_content, sa[1], sa[2]) :
                sa \in {SummaryStep(acc.sumCache, processed_content, summary_length, sumOut)}
                       \X {SentimentStep(acc.senCache, inst, processed_content, senOut)}})

\* one pass through the loop body for an item, from the caches and the
\* processed_news in acc
ProcessArticle(acc, inst, item, summary_length, sumOut, senOut) ==
    TheOnly({Analyzed(acc, inst, item, processed_content, summary_length, sumOut, senOut) :
                processed_content \in {ExtractAndClean(item, DefaultMaxLength)}})

\* the loop over news_items from index i on; an exception ends it with the
\* articles appended so far
RECURSIVE ProcessNews(_, _, _, _, _, _, _)
ProcessNews(acc, inst, news_items, summary_length, sumOuts, senOuts, i) ==
    IF i > Len(news_items) \/ acc.exc # "none" THEN acc
    ELSE TheOnly({ProcessNews(next, inst, news_items, summary_length, sumOuts, senOuts, i + 1) :
                     next \in {ProcessArticle(acc, inst, news_items[i], summary_length,
                                              sumOuts[i], senOuts[i])}})

\* the message main shows after the loop and save_to_json
Message(p, saved) == IF p.exc = "none" /\ saved THEN "success" ELSE "error"

\* the record of a run: what the search gave, what the model did, the
\* processed_news of the session state, whether the loop ran to its end, and
\* the message shown
SearchCall(search, sumOuts, senOuts, processed, looped, message) ==
    [op |-> "search", search |-> search, sumOuts |-> sumOuts, senOuts |-> senOuts,
     processed |-> processed, looped |-> looped, message |-> message]

\* main after the search button was pressed with a keyword: the search, the
\* loop, save_to_json, and the message shown
RunSearch(sumC, senC, inst, search, summary_length, sumOuts, senOuts, saved) ==
    IF search.exc # "none"
    THEN [sumCache |-> sumC, senCache |-> senC,
          call |-> SearchCall(search, sumOuts, senOuts, <<>>, FALSE, "error")]
    ELSE IF search.value = <<>>
    THEN [sumCache |-> sumC, senCache |-> senC,
          call |-> SearchCall(search, sumOuts, senOuts, <<>>, FALSE, "warning")]
    ELSE TheOnly({[sumCache |-> p.sumCache, senCache |-> p.senCache,
                   call |-> SearchCall(search, sumOuts, senOuts, p.processed,
                                       p.exc = "none", Message(p, saved))] :
                     p \in {ProcessNews([sumCache |-> sumC, senCache |-> senC,
                                         exc |-> "none", processed |-> <<>>],
                                        inst, search.value, summary_length,
                                        sumOuts, senOuts, 1)}})

\* the class-level caches main finds: empty, or holding what an earlier run
\* stored for the text 'a'
EarlierSummaries ==
    {<<>>, SummarizeServices(<<>>, <<"a">>, <<"medium">>, SummaryOut("text", RawMarked)).cache}

EarlierSentiments ==
    {<<>>, AnalyzeThreshold(<<>>, [pos |-> 3, neg |-> -3], <<"a">>,
                            [kind |-> "text",
                             raw |-> SentimentRaw("object", FALSE, "positive",
                                                  [t |-> "float", v |-> 2])]).cache}

PipelineInit ==
    /\ TruncIdle
    /\ unit = "app"
    /\ sumCache \in EarlierSummaries
    /\ senCache \in EarlierSentiments
    /\ call = NoCall
    /\ resp = NoResp
    /\ FetchIdle

Search ==
    /\ unit = "app"
    /\ call = NoCall
    /\ \E inst \in Thresholds, search \in SearchResults, summary_length \in Lengths,
          saved \in BOOLEAN :
       \E sumOuts \in [1..Len(search.value) -> PipelineSummaryOutputs],
          senOuts \in [1..Len(search.value) -> PipelineSentimentOutputs] :
       \E r \in {RunSearch(sumCache, senCache, inst, search, summary_length,
                           sumOuts, senOuts, saved)} :
          /\ sumCache' = r.sumCache
          /\ senCache' = r.senCache
          /\ call' = r.call
    /\ UNCHANGED <<unit, resp>>

PipelineNext ==
    Search /\ UNCHANGED <<tText, tMaxLength, tResult, tPc, newsCache, now>>

SpecPipeline == PipelineInit /\ [][PipelineNext]_vars

-----------------------------------------------------------------------------
(* services/summarizer.py, services/sentiment.py: calls running in several
   threads of one process.  A thread switch can fall between any two
   bytecodes; the membership test, the subscript read and the subscript store
   on the class-level dicts are each one atomic dict operation. *)

ThreadIds == {1, 2}

\* the calls the threads make: text 'a' or 'b'; a summary of medium length
\* with a model that raises, answers blank, two marked lines or a plain line;
\* an analysis by an instance of either threshold pair with a model that
\* raises or answers score 0.2
SummarizeCalls ==
    {[op |-> "summarize", text |-> t, param |-> <<"medium">>, out |-> o] :
        t \in Texts \ {<<>>},
        o \in {SummaryOut("raise", <<>>), SummaryOut("text", RawBlank),
               SummaryOut("text", RawMarked), SummaryOut("text", RawPlain)}}

AnalyzeCalls ==
    {[op |-> "analyze", text |-> t, param |-> inst, out |-> o] :
        t \in Texts \ {<<>>}, inst \in Thresholds,
        o \in {[kind |-> "raise", raw |-> NoRaw],
               [kind |-> "text", raw |-> SentimentRaw("object", FALSE, "positive",
                                                      [t |-> "float", v |-> 2])]}}

\* the cache key of a thread's call
ThreadKey(c) ==
    IF c.op = "summarize" THEN SummaryCacheKey(c.text, c.param) ELSE Md5(c.text)

\* a thread: where it is in its call ("idle", "hit": the key was found,
\* "miss": it was not, "store": the result is computed, "done"), the call,
\* and the result it holds
IdleThread == [pc |-> "idle", c |-> <<>>, exc |-> "none", value |-> <<>>, invoked |-> FALSE]

\* the thread after `cache_key in self._cache`
Entered(c, cache) ==
    [IdleThread EXCEPT !.pc = IF ThreadKey(c) \in DOMAIN cache THEN "hit" ELSE "miss",
                       !.c = c]

ThreadsInit ==
    /\ TruncIdle
    /\ unit = "threads"
    /\ sumCache = <<>>
    /\ senCache = <<>>
    /\ call = [op |-> "threads", th |-> [i \in ThreadIds |-> IdleThread], writes |-> <<>>]
    /\ resp = NoResp
    /\ FetchIdle

\* thread i enters summarize or analyze and tests `cache_key in self._cache`
ThreadCall(i) ==
    /\ unit = "threads"
    /\ call.th[i].pc = "idle"
    /\ \/ \E c \in SummarizeCalls :
             call' = [call EXCEPT !.th[i] = Entered(c, sumCache)]
       \/ \E c \in AnalyzeCalls :
             call' = [call EXCEPT !.th[i] = Entered(c, senCache)]
    /\ UNCHANGED <<unit, sumCache, senCache>>

\* `return self._cache[cache_key]`
ThreadRead(i) ==
    /\ unit = "threads"
    /\ call.th[i].pc = "hit"
    /\ LET c     == call.th[i].c
           cache == IF c.op = "summarize" THEN sumCache ELSE senCache
       IN  call' = [call EXCEPT !.th[i].pc = "done", !.th[i].value = cache[ThreadKey(c)]]
    /\ UNCHANGED <<unit, sumCache, senCache>>

\* the try block up to the store: the model call, the checks on the response,
\* the parser; a failure leaves the call through its except clauses
ThreadCompute(i) ==
    /\ unit = "threads"
    /\ call.th[i].pc = "miss"
    /\ LET c == call.th[i].c
           o == IF c.op = "summarize"
                THEN SummarizeServices(<<>>, c.text, c.param, c.out)
                ELSE AnalyzeThreshold(<<>>, c.param, c.text, c.out)
       IN  call' = [call EXCEPT !.th[i].pc = IF o.cache # <<>> THEN "store" ELSE "done",
                                !.th[i].exc = o.exc,
                                !.th[i].value = o.value,
                                !.th[i].invoked = TRUE]
    /\ UNCHANGED <<unit, sumCache, senCache>>

\* `self._cache[cache_key] = result` and the return
ThreadStore(i) ==
    /\ unit = "threads"
    /\ call.th[i].pc = "store"
    /\ LET c == call.th[i].c
           k == ThreadKey(c)
           v == call.th[i].value
       IN  /\ sumCache' = IF c.op = "summarize" THEN Put(sumCache, k, v) ELSE sumCache
           /\ senCache' = IF c.op = "analyze" THEN Put(senCache, k, v) ELSE senCache
           /\ call' = [call EXCEPT !.th[i].pc = "done",
                                   !.writes = Append(@, [op |-> c.op, key |-> k,
                                                         value |-> v, by |-> i])]
    /\ UNCHANGED unit

ThreadsNext ==
    \/ \E i \in ThreadIds : ThreadCall(i)
          /\ UNCHANGED <<tText, tMaxLength, tResult, tPc, resp, newsCache, now>>
    \/ \E i \in ThreadIds : ThreadRead(i)
          /\ UNCHANGED <<tText, tMaxLength, tResult, tPc, resp, newsCache, now>>
    \/ \E i \in ThreadIds : ThreadCompute(i)
          /\ UNCHANGED <<tText, tMaxLength, tResult, tPc, resp, newsCache, now>>
    \/ \E i \in ThreadIds : ThreadStore(i)
          /\ UNCHANGED <<tText, tMaxLength, tResult, tPc, resp, newsCache, now>>

SpecThreads == ThreadsInit /\ [][ThreadsNext]_vars

-----------------------------------------------------------------------------
(* Properties *)

HasSpace(s) == \E i \in 1..Len(s) : s[i] = " "

\* s ends with the ellipsis marker
EndsWithEllipsis(s) == Len(s) >= 3 /\ SubSeq(s, Len(s) - 2, Len(s)) = Ellipsis

\* C1: a text longer than max_length comes back ending with "...", at most
\* max_length + 3 long, its part before the "..." a prefix of the text that
\* stops right before a space when text[:max_length] holds a space and is
\* text[:max_length] itself when it holds none; a text of at most
\* max_length characters comes back unchanged.
C1_TruncateContract ==
    tPc = "done" =>
        IF Len(tText) > tMaxLength
        THEN /\ EndsWithEllipsis(tResult)
             /\ Len(tResult) <= tMaxLength + 3
             /\ LET kept == SubSeq(tResult, 1, Len(tResult) - 3)
                    head == SubSeq(tText, 1, Min(tMaxLength, Len(tText)))
                IN  /\ Len(kept) <= Len(tText)
                    /\ \A i \in 1..Len(kept) : kept[i] = tText[i]
                    /\ HasSpace(head) => tText[Len(kept) + 1] = " "
                    /\ ~HasSpace(head) => kept = head
        ELSE tResult = tText

\* C1 witness: "a ba" cut at 3 keeps "a", the word before the last space
C1_Witness ==
    /\ tPc = "done"
    /\ tText = <<"a", " ", "b", "a">>
    /\ tMaxLength = 3
    /\ tResult = <<"a", ".", ".", ".">>

\* the last model behaviour a call consumed
LastOut == call.outs[call.calls]

IsSentimentUnit == unit \in {"services.sentiment", "gemini.sentiment", "openai.sentiment"}

\* the answer is a JSON object the analyzer of this unit can read: the OpenAI
\* analyzer tolerates surrounding prose, the Gemini ones do not
ReadableObject(out) ==
    /\ out.kind = "text"
    /\ out.raw.form = "object"
    /\ unit = "openai.sentiment" \/ ~out.raw.prose

\* the score is a JSON number
JsonNumber(f) == f.t \in {"int", "float", "bigint"}

\* a JSON number below lo / above hi (tenths); a bigint by its sign
Below(f, lo) == IF f.t = "bigint" THEN f.v < 0 ELSE f.v < lo
Above(f, hi) == IF f.t = "bigint" THEN f.v > 0 ELSE f.v > hi

ScaleLo == IF unit = "services.sentiment" THEN -10 ELSE 10
ScaleHi == IF unit = "services.sentiment" THEN 10 ELSE 50

\* C2: the score analyze returns lies in the scale of the analyzer, and a
\* number the model returns outside the scale (in an otherwise well-formed
\* answer) comes back as the nearer bound of the scale, not as the fallback.
C2_ScoreClamped ==
    (call.op = "analyze" /\ call.exc = "none") =>
        /\ call.value.score >= ScaleLo /\ call.value.score <= ScaleHi
        /\ unit # "services.sentiment" => call.value.score % 10 = 0
        /\ (/\ call.calls >= 1
            /\ ReadableObject(LastOut)
            /\ JsonNumber(LastOut.raw.score)
            /\ unit = "services.sentiment" =>
                   LastOut.raw.label \in {"positive", "neutral", "negative"})
           => /\ Below(LastOut.raw.score, ScaleLo) =>
                    (call.path = "ok" /\ call.value.score = ScaleLo)
              /\ Above(LastOut.raw.score, ScaleHi) =>
                    (call.path = "ok" /\ call.value.score = ScaleHi)

NeutralOf == IF unit = "services.sentiment" THEN [label |-> "neutral", score |-> 0]
             ELSE [label |-> "Neutral", score |-> 30]

\* the answer is one of C3's cases: the call raised, no content came back,
\* the text is no JSON object, a required field is missing, or the score is
\* of a type Python does not count as a number (a string)
Malformed(out) ==
    \/ out.kind # "text"
    \/ ~ReadableObject(out)
    \/ out.raw.score.t \in {"absent", "null", "string"}
    \/ unit = "services.sentiment" /\ out.raw.label \in {"<absent>", "<null>"}

CacheOf == IF IsSentimentUnit THEN senCache ELSE sumCache

KeyOf(c) == IF c.op = "analyze" THEN Md5(c.text)
            ELSE SummaryCacheKey(c.text, c.param)

\* C4: an entry once stored is never removed or changed; a call that succeeds
\* stores its result under its key; and a call whose key is stored returns
\* the stored value without invoking the model.
C4_CacheIdempotent ==
    [][ /\ \A k \in DOMAIN sumCache : k \in DOMAIN sumCache' /\ sumCache'[k] = sumCache[k]
        /\ \A k \in DOMAIN senCache : k \in DOMAIN senCache' /\ senCache'[k] = senCache[k]
        /\ call'.path = "ok" =>
              /\ KeyOf(call') \in DOMAIN CacheOf'
              /\ CacheOf'[KeyOf(call')] = call'.value
        /\ (call'.text # <<>> /\ KeyOf(call') \in DOMAIN CacheOf) =>
              /\ call'.calls = 0
              /\ call'.exc = "none"
              /\ call'.value = CacheOf[KeyOf(call')]
      ]_vars

\* C4 witness: a summarize call answered from the cache while another key is
\* stored too
C4_Witness ==
    /\ call.op = "summarize"
    /\ call.path = "hit"
    /\ call.calls = 0
    /\ call.value = sumCache[KeyOf(call)]
    /\ \E k \in DOMAIN sumCache : k # KeyOf(call)

\* C5: a call that failed or fell back leaves no entry under its key.
C5_NoEntryOnFailure ==
    (call.op # "none" /\ call.path \in {"fallback", "raise"}) =>
        KeyOf(call) \notin DOMAIN CacheOf

\* the label the thresholds of an instance give a score
LabelFor(inst, score) ==
    IF score >= inst.pos THEN "positive"
    ELSE IF score <= inst.neg THEN "negative"
    ELSE "neutral"

\* C6: two calls differing in any parameter never share an entry, so the
\* threshold-based analyzer's label always follows from the thresholds of the
\* instance that was called.
C6_LabelFollowsThresholds ==
    (unit = "services.sentiment" /\ call.op = "analyze" /\ call.path \in {"ok", "hit"}) =>
        call.value.label = LabelFor(call.param, call.value.score)

\* the model declined every time summarize invoked it
AllBlocked ==
    /\ call.calls >= 1
    /\ \A i \in 1..call.calls :
          call.outs[i].kind \in {"blocked_prompt", "blocked_candidate"}

\* C10: when the model declines on safety grounds, summarize raises
\* SummarizerException, returns no text and stores nothing.
C10_BlockedRaisesSummarizerException ==
    (call.op = "summarize" /\ AllBlocked) =>
        /\ call.exc = "summarizer.SummarizerException"
        /\ call.value = NoneStr
        /\ KeyOf(call) \notin DOMAIN sumCache

\* the lines of a model answer as the parser looks at them
StrippedLines(raw) ==
    LET lines == SplitLines(Strip(raw))
    IN  [i \in 1..Len(lines) |-> Strip(lines[i])]

\* no line of the answer starts with the bullet or the conclusion marker
NoMarkerLine(raw) ==
    \A i \in 1..Len(StrippedLines(raw)) :
        /\ ~StartsWith(StrippedLines(raw)[i], BulletMarker)
        /\ ~StartsWith(StrippedLines(raw)[i], ConclusionMarker)

\* summarize got a model answer without marker lines and returned
UnmarkedAnswer ==
    /\ call.op = "summarize"
    /\ call.calls = 1
    /\ LastOut.kind = "text"
    /\ NoMarkerLine(LastOut.raw)
    /\ call.exc = "none"

\* C9 as stated: an answer without marker lines comes back unmodified.
C9_RawUnmodified == UnmarkedAnswer => call.value = LastOut.raw

\* C9: an answer without marker lines comes back unmodified only when it has
\* no non-blank line; otherwise its first non-blank line comes back as a
\* bullet, its second as the conclusion, and the others are left out.
C9_RawOnlyWhenBlank ==
    UnmarkedAnswer =>
        LET nb == SelectSeq(StrippedLines(LastOut.raw), LAMBDA l : l # <<>>)
        IN  IF nb = <<>> THEN call.value = LastOut.raw
            ELSE IF Len(nb) = 1 THEN call.value = BulletMarker \o nb[1]
            ELSE call.value = BulletMarker \o nb[1] \o <<"\n", "\n">>
                              \o ConclusionMarker \o <<" ">> \o nb[2]

\* C9 witness: the answer "x", "y", "x" on three lines came back as the
\* bullet "- x" and the conclusion made of "y"
C9_Witness ==
    /\ UnmarkedAnswer
    /\ LastOut.raw = <<"x", "\n", " ", "y", "\n", "x">>
    /\ call.value = <<"-", " ", "x", "\n", "\n", "gyeol", "ron", ":", " ", "y">>

\* the article was fetched and the stages were entered
Fetched == call.op = "analyze_news" /\ call.fetched = "item"

\* C7: once the article was fetched, a summarizer that fails leaves a
\* successful response with a fallback summary and the sentiment the analyzer
\* computed, and an analyzer that fails leaves a successful response with the
\* neutral score 3.0 and the summarizer's summary.
C7_StageFailureNeverAborts ==
    Fetched =>
        /\ call.sum.path = "raise" =>
              /\ resp.status = 200
              /\ resp.summary = <<"Summarization failed">>
              /\ call.sen.path # "none" /\ resp.sentiment = call.sen.value
        /\ call.sen.path = "fallback" =>
              /\ resp.status = 200
              /\ resp.sentiment.score = 30
              /\ call.sum.exc = "none" => resp.summary = call.sum.value

\* C8: a fetch that finds no article is answered with status 400 and the
\* fetch-failure detail, and neither the summarizer nor the analyzer is run.
C8_NotFoundIsFetchFailure ==
    (call.op = "analyze_news" /\ call.fetched = "none") =>
        /\ resp.status = 400
        /\ resp.detail # "An unknown error occurred"
        /\ call.sum.path = "none" /\ call.sum.calls = 0
        /\ call.sen.path = "none" /\ call.sen.calls = 0

-----------------------------------------------------------------------------
(* Properties of the NewsClient *)

IsGetNews == call.op = "get_news"
IsGetNewsFromUrl == call.op = "get_news_from_url"

\* the response was HTTP 429
RateLimited(r) == r.kind = "http_error" /\ r.status = 429

\* the response was a 200 with a JSON body
Succeeded(r) == r.kind = "ok" /\ r.json

\* C11: one get_news call sends at most 3 requests; a 429 response received
\* before the third request is followed by another request; and a call whose
\* last response succeeded returns that response's articles.
C11_RateLimitRetried ==
    IsGetNews =>
        /\ call.requests <= StopAfterAttempt
        /\ \A i \in 1..Len(call.outs) :
              (RateLimited(call.outs[i]) /\ i < StopAfterAttempt) => Len(call.outs) > i
        /\ (call.outs # <<>> /\ Succeeded(call.outs[Len(call.outs)])) =>
              /\ call.exc = "none"
              /\ call.value = call.outs[Len(call.outs)].articles

\* the request failed below HTTP: a timeout or a connection error
NetworkFailure(r) == r.kind \in {"timeout", "connection_error"}

\* C12: in one get_news_from_url call, a request that fails with a timeout
\* or a connection error before the third request is followed by another
\* request, and a request answered with an HTTP error status is the call's
\* only request and ends the call with that status.
C12_NetworkFailuresRetried ==
    IsGetNewsFromUrl =>
        \A i \in 1..Len(call.outs) :
            /\ (NetworkFailure(call.outs[i]) /\ i < StopAfterAttempt) => Len(call.outs) > i
            /\ call.outs[i].kind = "http_error" =>
                  /\ call.requests = 1
                  /\ call.exc = "NewsAPIException"
                  /\ call.status_code = call.outs[i].status

-----------------------------------------------------------------------------
(* Properties of the retries of the summarizers and analyzers *)

\* the model declined on safety grounds
SafetyBlock(out) == out.kind \in {"blocked_prompt", "blocked_candidate"}

\* the model answered with text the analyzer's parser rejects
ValidationFailure(out) == IsSentimentUnit /\ out.kind = "text" /\ Malformed(out)

\* C13: a summarize or analyze call whose first model answer is a safety
\* block or fails validation invokes the model exactly once.
C13_NonRetriableInvokedOnce ==
    (call.op \in {"summarize", "analyze"} /\ call.calls >= 1
        /\ (SafetyBlock(call.outs[1]) \/ ValidationFailure(call.outs[1]))) =>
        call.calls = 1

-----------------------------------------------------------------------------
(* Properties of the failures of the NewsClient *)

\* the last response a call got
LastResponse == call.outs[Len(call.outs)]

\* C14: get_news lets no exception out but NewsAPIException, and the
\* exception tells the failure: the timeout error after a timeout, the
\* rate-limit error (with status 429 where the exception carries a status)
\* after a 429, the upstream error after another status or request error.
C14_FailuresAreNewsAPIExceptions ==
    (call.op \in {"get_news", "services.get_news"} /\ call.exc # "none") =>
        /\ call.exc = "NewsAPIException"
        /\ call.outs # <<>> =>
              /\ LastResponse.kind = "timeout" => call.msg = "timeout"
              /\ RateLimited(LastResponse) =>
                    /\ call.msg = "rate_limit"
                    /\ IsGetNews => call.status_code = 429
              /\ (LastResponse.kind \in {"connection_error", "http_error", "redirects"}
                    /\ ~RateLimited(LastResponse)) =>
                    call.msg \in {"status", "request_error"}

\* the page has enough text for an item: an extracted body of at least
\* MinContentLength characters, or a description longer than that
Sufficient(fetch) ==
    fetch.content >= MinContentLength \/ fetch.description > MinContentLength

\* C15: every item get_news_from_url returns has content of at least 50
\* characters, the extracted text or else the description; and for a page
\* that was fetched the call raises nothing, returning an item when the page
\* has enough text and None otherwise.
C15_ItemOnlyWithSufficientContent ==
    IsGetNewsFromUrl =>
        /\ (call.exc = "none" /\ call.value.found) =>
              call.value.content >= MinContentLength
        /\ (call.outs # <<>> /\ LastResponse.kind = "page") =>
              /\ call.exc = "none"
              /\ call.value.found <=> Sufficient(LastResponse)
              /\ call.value.found =>
                    call.value.content =
                        IF LastResponse.content >= MinContentLength
                        THEN LastResponse.content ELSE LastResponse.description

-----------------------------------------------------------------------------
(* Properties of extract_and_clean *)

IsExtract == call.op = "extract_and_clean"

\* the text the item's content is cleaned to
CleanedContent == RemoveWhitespace(RemoveHtmlTags(call.news_item.content))

\* the content yields too little text: no more than 'Very short.' does
TooLittle == Len(CleanedContent) <= VeryShortLength

\* needle in haystack
Contains(haystack, needle) ==
    \E i \in 0..(Len(haystack) - Len(needle)) :
        SubSeq(haystack, i + 1, i + Len(needle)) = needle

\* C16: extract_and_clean returns the truncated fallback text when the item
\* has no content or the content yields too little text, in which case the
\* cleaned content is no part of the result, and the truncated cleaned
\* content otherwise.
C16_FallbackOnTooLittleText ==
    IsExtract =>
        IF Falsy(call.news_item.content) \/ TooLittle
        THEN /\ call.value = TruncateText(RemoveWhitespace(AltText(call.news_item)),
                                          call.max_length)
             /\ CleanedContent # <<>> => ~Contains(call.value, CleanedContent)
        ELSE call.value = TruncateText(CleanedContent, call.max_length)

\* the text holds a markup tag
HasTag(s) == \E i \in 1..Len(s) : s[i] \in {"<", ">"}

\* the text holds two whitespace characters in a row
HasWhitespaceRun(s) == \E i \in 1..(Len(s) - 1) : IsSpace(s[i]) /\ IsSpace(s[i + 1])

\* the text is at most max_length characters, or at most max_length
\* characters followed by the ellipsis
WithinLength(s, max_length) ==
    \/ Len(s) <= max_length
    \/ Len(s) <= max_length + Len(Ellipsis) /\ EndsWithEllipsis(s)

\* C17: the result of extract_and_clean, from the content or from the
\* fallback, holds no tag and no run of whitespace, neither starts nor ends
\* with whitespace, and is at most max_length characters plus the ellipsis.
C17_ResultIsNormalized ==
    IsExtract =>
        /\ ~HasTag(call.value)
        /\ ~HasWhitespaceRun(call.value)
        /\ call.value # <<>> =>
              ~IsSpace(call.value[1]) /\ ~IsSpace(call.value[Len(call.value)])
        /\ WithinLength(call.value, call.max_length)

-----------------------------------------------------------------------------
(* Properties of the configuration *)

\* C18: get_news of a client without api_key raises NewsAPIException after
\* one run of its body and without a request, and /analyze without an LLM
\* key answers 500 without fetching the page or invoking a model.
C18_MissingCredentialIsFatal ==
    /\ (IsGetNews /\ unit = "news_client.nokey") =>
          /\ call.exc = "NewsAPIException"
          /\ call.msg = "no_key"
          /\ call.requests = 0
          /\ call.attempts = 1
    /\ (call.op = "analyze_news" /\ ~call.hasKey) =>
          /\ resp.status = 500
          /\ resp.detail = "LLM_API_KEY not configured"
          /\ call.fetched = "skipped"
          /\ call.sum.calls = 0
          /\ call.sen.calls = 0

\* C18 witness: a client without key was asked for news after its cache was
\* filled by a page fetch
C18_Witness ==
    /\ unit = "news_client.nokey"
    /\ IsGetNews
    /\ call.exc = "NewsAPIException"
    /\ call.requests = 0
    /\ newsCache # NoNewsCache

\* the setting is present: set, and not empty
Present(v) == v # NoneStr /\ v # <<>>

\* the setting used follows the precedence: the environment's value when
\* present, else the request's when present
Precedence(used, fromEnv, fromRequest) ==
    /\ Present(fromEnv) => used = fromEnv
    /\ (~Present(fromEnv) /\ Present(fromRequest)) => used = fromRequest

\* C19: the API key, provider, model and base URL /analyze works with are
\* the environment's values wherever those are present, whatever the request
\* says, and the request's values only where the environment's are absent.
C19_EnvironmentOverRequest ==
    (call.op = "resolve_config" /\ call.used.status = 0) =>
        /\ Precedence(call.used.api_key, call.env.LLM_API_KEY, call.request.llm_api_key)
        /\ Precedence(call.used.provider, call.env.LLM_PROVIDER, call.request.llm_provider)
        /\ Precedence(call.used.model, call.env.LLM_MODEL, call.request.llm_model)
        /\ Precedence(call.used.api_base, call.env.LLM_API_BASE,
                      call.request.llm_api_base.url)

\* C19 witness: environment and request name different providers and
\* models, and the environment's are used
C19_Witness ==
    /\ call.op = "resolve_config"
    /\ call.env.LLM_PROVIDER = <<"openai">>
    /\ call.request.llm_provider = <<"gemini">>
    /\ call.env.LLM_MODEL = <<"e", "m">>
    /\ call.request.llm_model = <<"r", "m">>
    /\ call.used.provider = <<"openai">>
    /\ call.used.model = <<"e", "m">>

-----------------------------------------------------------------------------
(* Properties of the fetch cache *)

IsClientFetch == call.op \in {"get_news", "get_news_from_url"}

\* when the call started, the cache held an entry for its key, stored less
\* than CacheTtlSeconds before
FreshEntry ==
    /\ call.key \in DOMAIN call.before.items
    /\ call.at - call.before.stamps[call.key] < CacheTtlSeconds

\* the call got through the api_key test of get_news
PastKeyTest == IsGetNewsFromUrl \/ unit = "news_client.key"

\* C20: a get_news or get_news_from_url call that finds an entry for its
\* own key younger than 300 seconds returns that entry and sends no request;
\* a call that sends no request and returns a value returns such an entry;
\* and a call that finds no such entry sends a request.
C20_CacheServesFreshEntriesOnly ==
    (IsClientFetch /\ PastKeyTest) =>
        /\ FreshEntry =>
              /\ call.requests = 0
              /\ call.exc = "none"
              /\ call.value = call.before.items[call.key]
        /\ (call.requests = 0 /\ call.exc = "none") =>
              /\ FreshEntry
              /\ call.value = call.before.items[call.key]
        /\ ~FreshEntry => call.requests >= 1

\* C20 witness: a search whose entry was CacheTtlSeconds old was sent to
\* NewsAPI again, and returned other articles than the entry
C20_Witness ==
    /\ IsGetNews
    /\ call.key \in DOMAIN call.before.items
    /\ call.at - call.before.stamps[call.key] = CacheTtlSeconds
    /\ call.requests = 1
    /\ call.exc = "none"
    /\ call.value # call.before.items[call.key]
    /\ call.value # <<>>

-----------------------------------------------------------------------------
(* Properties of repeated requests *)

\* the request names the URL of the request before it, which fetched the
\* article less than CacheTtlSeconds earlier
RepeatedWithinTtl ==
    /\ call.op = "analyze_url"
    /\ call.previous.url = call.url
    /\ call.previous.fetched = "item"
    /\ call.at - call.previous.at < CacheTtlSeconds

\* C21: a request for the URL of the request before it, within the TTL of
\* that request's fetch, makes no HTTP GET: the two requests together make
\* at most one.
C21_RepeatedAnalyzeFetchesOnce ==
    RepeatedWithinTtl =>
        /\ call.gets = 0
        /\ call.previous.gets + call.gets <= 1

-----------------------------------------------------------------------------
(* Properties of the dashboard pipeline *)

\* the last run searched and found articles
FoundArticles ==
    /\ call # NoCall
    /\ call.op = "search"
    /\ call.search.exc = "none"
    /\ call.search.value # <<>>

\* C22: a search that returns N articles produces exactly N processed
\* Articles, in the order of the search result, each with a summary and a
\* sentiment that are not None, also when summarization or sentiment analysis
\* fails for some of the articles.
C22_EveryArticleProcessed ==
    FoundArticles =>
        /\ Len(call.processed) = Len(call.search.value)
        /\ \A i \in 1..Len(call.processed) :
              /\ call.processed[i].item = call.search.value[i]
              /\ call.processed[i].summary # NoneStr
              /\ call.processed[i].sentiment # NoSentiment

\* two articles: the summarization of the first failed, the analysis of the
\* second fell back, and both were processed
C22_Witness ==
    /\ FoundArticles
    /\ Len(call.search.value) = 2
    /\ Len(call.processed) = 2
    /\ call.processed[1].summary = SummaryFailed
    /\ call.processed[2].summary \notin {SummaryFailed, SummaryNoContent}
    /\ call.processed[2].sentiment = NeutralThreshold
    /\ call.sumOuts[2].kind = "text"
    /\ call.senOuts[2].kind = "raise"

-----------------------------------------------------------------------------
(* Properties of the Likert analyzer's safety blocks *)

\* C23: the Likert GeminiSentimentAnalyzer.analyze raises SentimentException
\* to its caller when the model returns no content because the prompt was
\* blocked or the candidate was stopped by the safety policy.
C23_BlockedRaisesSentimentException ==
    (unit = "gemini.sentiment" /\ call.op = "analyze" /\ call.calls >= 1
        /\ SafetyBlock(LastOut)) =>
        call.exc = "SentimentException"

-----------------------------------------------------------------------------
(* Properties of the summary of a well-formed answer *)

\* the answer has the expected form: one or more lines starting with '- ',
\* then one line starting with the conclusion marker
WellFormed(raw) ==
    LET lines == SplitLines(raw)
    IN  /\ Len(lines) >= 2
        /\ \A i \in 1..(Len(lines) - 1) : StartsWith(lines[i], BulletMarker)
        /\ StartsWith(lines[Len(lines)], ConclusionMarker)

\* C24: for a model answer that already has the expected form, bullet lines
\* followed by one conclusion line, summarize returns a summary equal to the
\* answer's text, and the summary is cached under the key of its text and
\* its length option, a key the other length option does not share.
C24_WellFormedReturnedAsIs ==
    (unit = "services.summarizer" /\ call.op = "summarize" /\ call.calls = 1
        /\ LastOut.kind = "text" /\ WellFormed(LastOut.raw)) =>
        /\ call.value = LastOut.raw
        /\ sumCache[KeyOf(call)] = call.value
        /\ \A l \in Lengths \ {call.param} :
              SummaryCacheKey(call.text, l) # KeyOf(call)

-----------------------------------------------------------------------------
(* Properties of the threshold analyzer's labels *)

\* analyze of services/sentiment.py computed its result from a model answer
ComputedFromAnswer ==
    /\ unit = "services.sentiment"
    /\ call.op = "analyze"
    /\ call.path = "ok"

\* C25: a result the threshold analyzer computes from a model answer is
\* labelled from the clamped score and the thresholds of the instance alone,
\* whatever label the model gave: positive when the score is at least the
\* positive threshold, otherwise negative when it is at most the negative
\* threshold, otherwise neutral.
C25_LabelFromScoreAndThresholds ==
    ComputedFromAnswer =>
        LET score == call.value.score
        IN  /\ score = Clamp(LastOut.raw.score, -10, 10)
            /\ call.value.label \in {"positive", "negative", "neutral"}
            /\ call.value.label = "positive" <=> score >= call.param.pos
            /\ call.value.label = "negative" <=>
                   (score < call.param.pos /\ score <= call.param.neg)

\* the model called a text negative with score 0.2, and the instance with the
\* thresholds (0.1, -0.1) returned positive
C25_Witness ==
    /\ ComputedFromAnswer
    /\ LastOut.raw.label = "negative"
    /\ LastOut.raw.score = [t |-> "float", v |-> 2]
    /\ call.param = [pos |-> 1, neg |-> -1]
    /\ call.value = SentimentResult("positive", 2)

-----------------------------------------------------------------------------
(* Properties of concurrent calls *)

\* a summary that went through the parser: it has a bullet or a conclusion
ValidatedSummary(v) == ParseSummaryOutput(v) # NoneStr

\* a sentiment that went through the parser and the labelling
ValidatedSentiment(v) ==
    /\ v.label \in {"positive", "negative", "neutral"}
    /\ v.score >= -10 /\ v.score <= 10

\* the writes of one operation to one key, in the order they were made
WritesTo(op, k) == SelectSeq(call.writes, LAMBDA w : w.op = op /\ w.key = k)

\* the cache holds, for every key written, the value written last, and
\* nothing else
LastWriteWins(op, cache) ==
    /\ \A k \in DOMAIN cache :
          /\ WritesTo(op, k) # <<>>
          /\ cache[k] = WritesTo(op, k)[Len(WritesTo(op, k))].value
    /\ \A j \in 1..Len(call.writes) :
          call.writes[j].op = op => call.writes[j].key \in DOMAIN cache

\* C26: with concurrent summarize and analyze calls the shared caches hold,
\* for each key, exactly the result written last among the calls that
\* computed it, keep the entries of all distinct keys, and never show a value
\* that is not a validated result.
C26_CacheConsistentUnderConcurrency ==
    /\ LastWriteWins("summarize", sumCache)
    /\ LastWriteWins("analyze", senCache)
    /\ \A k \in DOMAIN sumCache : ValidatedSummary(sumCache[k])
    /\ \A k \in DOMAIN senCache : ValidatedSentiment(senCache[k])

-----------------------------------------------------------------------------
(* Properties of the tolerant summary parser *)

\* summarize parsed a model answer into a summary
Parsed ==
    /\ call.op = "summarize"
    /\ call.calls = 1
    /\ LastOut.kind = "text"
    /\ call.path = "ok"

ConclusionLine(l) == StartsWith(l, ConclusionMarker)

\* a non-empty line that matches neither marker
Unmarked(l) == l # <<>> /\ ~StartsWith(l, BulletMarker) /\ ~ConclusionLine(l)

\* the bullet line i of the answer gives: the line itself if it is marked, the
\* line behind a marker if it is unmarked and the first non-empty line of the
\* answer, and otherwise none (the empty string)
BulletAt(L, i) ==
    IF StartsWith(L[i], BulletMarker) THEN L[i]
    ELSE IF Unmarked(L[i]) /\ \A j \in 1..(i - 1) : L[j] = <<>> THEN BulletMarker \o L[i]
    ELSE <<>>

ExpectedBullets(L) ==
    SelectSeq([i \in 1..Len(L) |-> BulletAt(L, i)], LAMBDA b : b # <<>>)

\* the conclusion of the answer: its last line with the conclusion marker;
\* without such a line, the first unmarked line that follows a bullet, behind
\* the marker; otherwise none
ExpectedConclusion(L) ==
    LET marks   == {i \in 1..Len(L) : ConclusionLine(L[i])}
        coerced == {i \in 1..Len(L) :
                       Unmarked(L[i]) /\ \E j \in 1..(i - 1) : BulletAt(L, j) # <<>>}
    IN  IF marks # {} THEN L[CHOOSE i \in marks : \A j \in marks : j <= i]
        ELSE IF coerced # {}
        THEN ConclusionMarker \o <<" ">> \o L[CHOOSE i \in coerced : \A j \in coerced : i <= j]
        ELSE <<>>

\* the bullets on one line each, then an empty line and the conclusion
BulletsThenConclusion(bullets, conclusion) ==
    Join(<<"\n">>, bullets)
        \o (IF bullets # <<>> /\ conclusion # <<>> THEN <<"\n", "\n">> ELSE <<>>)
        \o conclusion

\* the lines of the answer before line i hold no bullet: each is empty or a
\* conclusion line
NoBulletBefore(L, i) == \A j \in 1..(i - 1) : L[j] = <<>> \/ ConclusionLine(L[j])

\* C27 as stated: every unmarked non-empty line before any bullet is in the
\* summary as a bullet, an unmarked non-empty line after the bullets started
\* and before a conclusion is the summary's conclusion, and the summary is the
\* bullets in input order followed by the conclusion.
C27_UnmarkedLinesKept ==
    Parsed =>
        LET L == StrippedLines(LastOut.raw)
            R == SplitLines(call.value)
        IN  /\ \A i \in 1..Len(L) :
                  (Unmarked(L[i]) /\ NoBulletBefore(L, i)) =>
                      \E r \in 1..Len(R) : R[r] = BulletMarker \o L[i]
            /\ \A i \in 1..Len(L) :
                  (/\ Unmarked(L[i])
                   /\ ~NoBulletBefore(L, i)
                   /\ \A j \in 1..(i - 1) :
                         ~ConclusionLine(L[j]) /\ (Unmarked(L[j]) => NoBulletBefore(L, j))) =>
                      R[Len(R)] = ConclusionMarker \o <<" ">> \o L[i]
            /\ call.value =
                  BulletsThenConclusion(
                      SelectSeq(R, LAMBDA l : StartsWith(l, BulletMarker)),
                      IF ConclusionLine(R[Len(R)]) THEN R[Len(R)] ELSE <<>>)

\* C27: the parser makes a bullet of the first non-empty line when it is
\* unmarked, makes the conclusion of the first unmarked line after a bullet
\* unless a line with the conclusion marker occurs (the last such line is the
\* conclusion), drops every other unmarked line, and returns the bullets in
\* input order followed, after an empty line, by the conclusion.
C27_FirstUnmarkedLinesCoerced ==
    Parsed =>
        LET L == StrippedLines(LastOut.raw)
        IN  call.value = BulletsThenConclusion(ExpectedBullets(L), ExpectedConclusion(L))

\* the answer was a conclusion line and then the plain line "x"; the summary
\* is the conclusion alone
C27_Witness ==
    /\ Parsed
    /\ LastOut.raw = ConclusionMarker \o <<" ", "y", "\n", "x">>
    /\ call.value = ConclusionMarker \o <<" ", "y">>

-----------------------------------------------------------------------------
(* Properties of the Likert analyzers' parsers *)

IsLikertUnit == unit \in {"gemini.sentiment", "openai.sentiment"}

\* the answer holds a JSON object with a numeric score amid other text
ObjectInProse(out) ==
    /\ out.kind = "text"
    /\ out.raw.form \in {"object", "braced"}
    /\ out.raw.prose
    /\ JsonNumber(out.raw.score)

\* C28: for a model answer that holds a JSON object with a numeric score,
\* preceded or followed by other text (which may hold braces), the analyzer
\* returns that object's score clamped to the scale, not the neutral fallback.
C28_ProseAroundObjectTolerated ==
    (IsLikertUnit /\ call.op = "analyze" /\ call.calls >= 1 /\ ObjectInProse(LastOut)) =>
        /\ call.path = "ok"
        /\ call.value.score = 10 * Round(Clamp(LastOut.raw.score, 10, 50))

\* the Likert labels
LikertLabels ==
    {"Extremely Negative", "Negative", "Neutral", "Positive", "Extremely Positive"}

\* n (tenths, a whole number) is c (tenths) rounded to the nearest whole
\* number, a half going to the even neighbour
IsRounded(n, c) ==
    /\ n % 10 = 0
    /\ n - c <= 5 /\ c - n <= 5
    /\ (n - c = 5 \/ c - n = 5) => (n \div 10) % 2 = 0

\* C29: a Likert analyzer answers a numeric score with a validated result
\* whose score is the model's score clamped to [1, 5] and rounded to one of
\* 1 .. 5, and whose label is the scale's label of that score; no result ever
\* carries the label Unknown or a label of another score.
C29_LikertScoreAndLabelAgree ==
    (IsLikertUnit /\ call.op = "analyze" /\ call.exc = "none") =>
        /\ call.value.score \in {10, 20, 30, 40, 50}
        /\ call.value.label = LikertLabel(call.value.score \div 10)
        /\ call.value.label \in LikertLabels
        /\ (call.calls >= 1 /\ ReadableObject(LastOut) /\ JsonNumber(LastOut.raw.score)) =>
              /\ call.path = "ok"
              /\ IsRounded(call.value.score, Clamp(LastOut.raw.score, 10, 50))

\* the model answered 2.5 and the Gemini analyzer returned 2.0, Negative
C29_Witness ==
    /\ unit = "gemini.sentiment"
    /\ call.op = "analyze"
    /\ call.path = "ok"
    /\ LastOut.raw.score = [t |-> "float", v |-> 25]
    /\ call.value = SentimentResult("Negative", 20)

\* the summary a call returned was parsed again
ParsedAgain == Parsed /\ resp.detail = "parsed again"

\* C30: _parse_summary_output is idempotent: parsing a summary it returned
\* returns that summary unchanged.
C30_ParseIsIdempotent ==
    ParsedAgain => resp.summary = call.value

\* the answer "y" / "- x" / "x" gave the summary "- y", "- x" with the
\* conclusion made of "x", and parsing the summary gave it again
C30_Witness ==
    /\ ParsedAgain
    /\ LastOut.raw = <<" ", "y", "\n", "-", " ", "x", "\n", "x">>
    /\ call.value = <<"-", " ", "y", "\n", "-", " ", "x", "\n", "\n",
                      "gyeol", "ron", ":", " ", "x">>
    /\ resp.summary = call.value

=============================================================================
